---- MODULE Spec2Model ----
(***************************************************************************)
(* Loyalty ledger of loyaltering-server: customer registration with the    *)
(* member-code allocator (customerController.ts), ledger postings and the  *)
(* balance aggregate (transactionController.ts), over the PostgreSQL       *)
(* tables Customer and Transaction with their unique indexes and foreign   *)
(* keys.                                                                   *)
(*                                                                         *)
(* Every request handler is an async function: it runs synchronously up to *)
(* each `await prisma...` and may interleave with other requests there.    *)
(* One action of the model is one database statement together with the     *)
(* synchronous code that follows it up to the next statement (or up to the *)
(* response).  A database statement is atomic.                             *)
(*                                                                         *)
(* Strings that the code transforms are sequences: an email is a sequence  *)
(* of one-character strings, a member code a sequence of decimal digits.   *)
(* Amounts are integers (points).                                          *)
(***************************************************************************)
EXTENDS Integers, Sequences, FiniteSets, TLC

VARIABLES
    customers,   \* table Customer, in insertion order; a customer's id is its position
    ledger,      \* table Transaction, in insertion order; an entry's id is its position
    events,      \* events handed to emitTransactionEvent, in order
    env,         \* process.env.WELCOME_BONUS_POINTS (a digit string, <<>> when unset)
    pc,          \* per request slot: where its handler is suspended
    req,         \* per request slot: the request body / params
    loc,         \* per request slot: the handler's local variables
    resp,        \* per request slot: the response sent
    permissions, \* table NotificationPermission: a set of rows
    permissionIds, \* the number of NotificationPermission ids issued so far
    vapid,       \* VAPID_PUBLIC_KEY and VAPID_PRIVATE_KEY are both set
    pruned,      \* history: ids of the rows whose send was answered gone and whose
                 \* update statement has run since their subscription was last stored
    rooms,       \* real-time channel: the restaurant groups each subscriber is joined to
    inbox,       \* real-time channel: the payloads delivered to each subscriber, in order
    welcome      \* the welcome emails handed to setImmediate: <<customer id, status>>

pushVars == <<permissions, permissionIds, vapid, pruned>>
fanoutVars == <<rooms, inbox>>

vars == <<customers, ledger, events, env, pc, req, loc, resp, pushVars, fanoutVars, welcome>>

(***************************************************************************)
(* Bounds of the model                                                     *)
(***************************************************************************)
MaxCustomers == 2      \* rows of Customer
MaxLedger == 3         \* rows of Transaction when requests run one at a time
MaxLedgerShared == 2   \* rows of Transaction when requests interleave
RandDenom == 2         \* Math.random() takes the values k / RandDenom, k < RandDenom
MaxAmount == 4         \* amounts of the validation table range over -MaxAmount..MaxAmount
MaxPermissionIds == 3  \* rows of NotificationPermission ever inserted

Procs == {"p1", "p2"}  \* requests that may be in flight at once

Subscribers == {"s1", "s2"}   \* connections to the real-time channel

(***************************************************************************)
(* Program constants                                                       *)
(***************************************************************************)
MaxAttempts == 15      \* generateMemberCode: attempt < 15
CodeBase == 10000      \* Math.floor(10000 + Math.random() * 90000)
CodeSpan == 90000
DefaultLimit == 50     \* getCustomerTransactions: req.query.limit || '50'
DefaultFeedLimit == 20 \* getRestaurantTransactions: req.query.limit || '20'

validTypes == {"REGISTRATION", "EARNED", "REDEEMED", "EXPIRED", "ADJUSTED", "REFUNDED"}

Restaurants == {"R1", "R2"}   \* rows of Restaurant (no handler modelled here deletes one)

(***************************************************************************)
(* Strings                                                                 *)
(***************************************************************************)
\* String(n) for a non-negative integer: its decimal digits
RECURSIVE String(_)
String(n) == IF n < 10 THEN <<n>> ELSE Append(String(n \div 10), n % 10)

\* parseInt(s, 10) of a digit string
RECURSIVE parseInt(_)
parseInt(s) ==
    IF Len(s) = 0 THEN 0
    ELSE parseInt(SubSeq(s, 1, Len(s) - 1)) * 10 + s[Len(s)]

IsSpace(ch) == ch = " "

\* s.trim()
RECURSIVE trim(_)
trim(s) ==
    IF Len(s) = 0 THEN s
    ELSE IF IsSpace(s[1]) THEN trim(Tail(s))
    ELSE IF IsSpace(s[Len(s)]) THEN trim(SubSeq(s, 1, Len(s) - 1))
    ELSE s

LowerChar(ch) ==
    CASE ch = "A" -> "a"
      [] ch = "B" -> "b"
      [] ch = "C" -> "c"
      [] ch = "D" -> "d"
      [] OTHER -> ch

\* a case folding that folds nothing
toLowerCase_identity(s) == s

\* s.toLowerCase()
toLowerCase(s) == [i \in 1..Len(s) |-> LowerChar(s[i])]

\* /^\S+@\S+\.\S+$/.test(s)
EmailRegex(s) ==
    /\ \A i \in 1..Len(s) : ~IsSpace(s[i])
    /\ \E i, j \in 1..Len(s) :
          /\ 1 < i /\ i + 1 < j /\ j < Len(s)
          /\ s[i] = "@"
          /\ s[j] = "."

\* restaurantId.trim() on the restaurant ids of the model ("  " is the all-blank id)
trimId(s) == IF s = "  " THEN "" ELSE s

(***************************************************************************)
(* Request slots                                                           *)
(***************************************************************************)
NullId == ""       \* an absent (falsy) string id; NULL in a restaurantId column

Undefined == "undefined"     \* a field the request or the statement leaves out
NoSubscription == "null"     \* NULL in the pushSubscription column

NoReq == [op |-> "none", email |-> <<>>, restaurantId |-> NullId, customerId |-> 0,
          type |-> "", amount |-> 0, hasAmount |-> FALSE, description |-> "",
          title |-> "", body |-> "", hasCustomerIds |-> FALSE, customerIds |-> <<>>,
          hasPermissionGranted |-> FALSE, permissionGranted |-> FALSE,
          pushSubscription |-> Undefined, q |-> <<>>, userId |-> NullId,
          page |-> <<>>, limit |-> <<>>]

NoLoc == [normalizedEmail |-> <<>>, rid |-> NullId, attempt |-> 0, memberCode |-> <<>>,
          savedCustomer |-> 0, registrationTransaction |-> 0,
          balanceAfter |-> 0, savedTransaction |-> 0,
          targets |-> {}, results |-> <<>>,
          kind |-> "", key |-> <<>>, digitsOnly |-> <<>>,
          pending |-> {}, transactions |-> <<>>, total |-> 0, balance |-> 0]

NoResp == [op |-> "none", status |-> 0, message |-> "", customer |-> 0, transaction |-> 0,
           balance |-> 0, sent |-> 0, failed |-> 0, errors |-> {},
           transactions |-> <<>>, total |-> 0, page |-> 0, limit |-> 0]

\* a request reaches its handler
Receive(p, r, label) ==
    /\ pc[p] = "idle"
    /\ pc' = [pc EXCEPT ![p] = label]
    /\ req' = [req EXCEPT ![p] = r]
    /\ loc' = [loc EXCEPT ![p] = NoLoc]
    /\ resp' = [resp EXCEPT ![p] = NoResp]

\* res.status(status).json({message, data}) and the handler returns; for a 500
\* the message kept is error.message, the detail the catch block passes on
Respond(p, status, message, customer, transaction, balance) ==
    /\ pc' = [pc EXCEPT ![p] = "idle"]
    /\ req' = [req EXCEPT ![p] = NoReq]
    /\ loc' = [loc EXCEPT ![p] = NoLoc]
    /\ resp' = [resp EXCEPT ![p] = [NoResp EXCEPT !.op = req[p].op, !.status = status,
                                    !.message = message, !.customer = customer,
                                    !.transaction = transaction, !.balance = balance]]

\* res.status(200).json({message, data: {sent, failed, errors}}) of sendNotification
RespondSend(p, message, sent, failed, errors) ==
    /\ pc' = [pc EXCEPT ![p] = "idle"]
    /\ req' = [req EXCEPT ![p] = NoReq]
    /\ loc' = [loc EXCEPT ![p] = NoLoc]
    /\ resp' = [resp EXCEPT ![p] = [NoResp EXCEPT !.op = req[p].op, !.status = 200,
                                    !.message = message, !.sent = sent,
                                    !.failed = failed, !.errors = errors]]

\* the handler goes on to its next statement
Goto(p, label, locals) ==
    /\ pc' = [pc EXCEPT ![p] = label]
    /\ loc' = [loc EXCEPT ![p] = locals]
    /\ UNCHANGED <<req, resp>>

(***************************************************************************)
(* The store                                                               *)
(***************************************************************************)
CustomerIds == 1..Len(customers)

\* prisma.customer.findUnique({ where: { id } })
findCustomerById(id) == id \in CustomerIds

\* prisma.customer.findUnique({ where: { email } })
findCustomerByEmail(email) == \E c \in CustomerIds : customers[c].email = email

\* a lookup that always searches the customers without a restaurant
memberCodeExists_unscopedOnly(restaurantId, code) ==
    \E c \in 1..Len(customers) :
        customers[c].memberCode = code /\ customers[c].restaurantId = ""

\* prisma.customer.findFirst of generateMemberCode: scoped by restaurantId when
\* given, otherwise among the customers whose restaurantId is null
memberCodeExists(restaurantId, code) ==
    IF restaurantId # NullId
    THEN \E c \in CustomerIds :
            customers[c].restaurantId = restaurantId /\ customers[c].memberCode = code
    ELSE \E c \in CustomerIds :
            customers[c].memberCode = code /\ customers[c].restaurantId = NullId

\* a table without the index on email
Customer_email_key_absent(row) == TRUE

\* unique index "Customer_email_key"
Customer_email_key(row) == \A c \in CustomerIds : customers[c].email # row.email

\* a table without the index on (restaurantId, memberCode)
Customer_restaurantId_memberCode_key_absent(row) == TRUE

\* unique index "Customer_restaurantId_memberCode_key": PostgreSQL holds two rows
\* to differ when a key column is NULL
Customer_restaurantId_memberCode_key(row) ==
    \A c \in CustomerIds :
        ~ /\ row.restaurantId # NullId
          /\ customers[c].restaurantId = row.restaurantId
          /\ customers[c].memberCode = row.memberCode

\* foreign key "Customer_restaurantId_fkey"
Customer_restaurantId_fkey(row) ==
    row.restaurantId # NullId => row.restaurantId \in Restaurants

\* error.message of a refused prisma.customer.create
constraintFailed(row) ==
    IF ~Customer_email_key(row) THEN "Unique constraint failed on (email)"
    ELSE IF ~Customer_restaurantId_memberCode_key(row)
    THEN "Unique constraint failed on (restaurantId, memberCode)"
    ELSE "Foreign key constraint failed on (restaurantId)"

\* foreign keys "Transaction_customerId_fkey" and "Transaction_restaurantId_fkey"
Transaction_fkeys(row) ==
    /\ row.customerId \in CustomerIds
    /\ row.restaurantId \in Restaurants

\* the amounts that _sum adds up: where { customerId }
RECURSIVE sumAmount(_, _)
sumAmount(rows, customerId) ==
    IF Len(rows) = 0 THEN 0
    ELSE sumAmount(SubSeq(rows, 1, Len(rows) - 1), customerId)
         + (IF rows[Len(rows)].customerId = customerId THEN rows[Len(rows)].amount ELSE 0)

\* a balance taken from the snapshot of the customer's latest entry
calculateCustomerBalance_latestSnapshot(customerId) ==
    LET own == {i \in 1..Len(ledger) : ledger[i].customerId = customerId} IN
    IF own = {} THEN 0
    ELSE ledger[CHOOSE i \in own : \A j \in own : j <= i].balanceAfter

\* calculateCustomerBalance: result._sum?.amount ?? 0 (the sum of no row is null)
calculateCustomerBalance(customerId) ==
    IF \E i \in 1..Len(ledger) : ledger[i].customerId = customerId
    THEN sumAmount(ledger, customerId)
    ELSE 0

(***************************************************************************)
(* Member Code Allocator                                                   *)
(***************************************************************************)
\* String(Math.floor(10000 + Math.random() * 90000)), Math.random() = k / RandDenom
drawCode(k) == String(CodeBase + ((k * CodeSpan) \div RandDenom))

\* a loop that goes round once more: attempt <= 15
anotherAttempt_offByOne(attempt) == attempt + 1 <= MaxAttempts

\* the for loop goes round again: attempt++ ; attempt < 15
anotherAttempt(attempt) == attempt + 1 < MaxAttempts

(***************************************************************************)
(* Balance Engine                                                          *)
(***************************************************************************)
\* sign checks that refuse zero as well
signMessage_refusingZero(type, amount) ==
    IF type \in {"REGISTRATION", "EARNED", "REFUNDED"} /\ amount <= 0
    THEN "transactions must have a positive amount"
    ELSE IF type \in {"REDEEMED", "EXPIRED", "ADJUSTED"} /\ amount >= 0
    THEN "transactions must have a negative amount"
    ELSE ""

\* the two sign checks of createTransaction: the message after its `${type} `
\* prefix, "" when the amount passes
signMessage(type, amount) ==
    IF type \in {"REGISTRATION", "EARNED", "REFUNDED"} /\ amount < 0
    THEN "transactions must have a positive amount"
    ELSE IF type \in {"REDEEMED", "EXPIRED", "ADJUSTED"} /\ amount > 0
    THEN "transactions must have a negative amount"
    ELSE ""

\* a snapshot that leaves the entry's own amount out
computeBalanceAfter_withoutAmount(currentBalance, amount) == currentBalance

\* const balanceAfter = currentBalance + amount
computeBalanceAfter(currentBalance, amount) == currentBalance + amount

\* parseInt(process.env.WELCOME_BONUS_POINTS || '0', 10)
welcomeBonusPoints == parseInt(IF Len(env) = 0 THEN <<0>> ELSE env)

\* a REGISTRATION entry whose snapshot does not count the bonus
registrationEntry_zeroSnapshot(customerId, restaurantId) ==
    [customerId |-> customerId, restaurantId |-> restaurantId, type |-> "REGISTRATION",
     amount |-> welcomeBonusPoints, balanceAfter |-> 0]

\* the REGISTRATION entry of createCustomer
registrationEntry(customerId, restaurantId) ==
    [customerId |-> customerId, restaurantId |-> restaurantId, type |-> "REGISTRATION",
     amount |-> welcomeBonusPoints, balanceAfter |-> welcomeBonusPoints]

\* the entry of createTransaction
postedEntry(r, balanceAfter) ==
    [customerId |-> r.customerId, restaurantId |-> r.restaurantId, type |-> r.type,
     amount |-> r.amount, balanceAfter |-> balanceAfter]

\* publish(restaurantId, payload) of the real-time channel: the payload goes to
\* every subscriber that is joined to the restaurant's group
publish(restaurantId, payload) ==
    inbox' = [s \in Subscribers |->
                IF restaurantId \in rooms[s] THEN Append(inbox[s], payload) ELSE inbox[s]]

\* subscriber s joins the group of a restaurant
join(s, restaurantId) ==
    /\ restaurantId \notin rooms[s]
    /\ rooms' = [rooms EXCEPT ![s] = @ \cup {restaurantId}]
    /\ UNCHANGED <<customers, ledger, events, env, pc, req, loc, resp, pushVars, inbox, welcome>>

\* subscriber s leaves the group of a restaurant (or disconnects from it)
leave(s, restaurantId) ==
    /\ restaurantId \in rooms[s]
    /\ rooms' = [rooms EXCEPT ![s] = @ \ {restaurantId}]
    /\ UNCHANGED <<customers, ledger, events, env, pc, req, loc, resp, pushVars, inbox, welcome>>

\* an emit that publishes to the group of the restaurant the customer belongs to
emitTransactionEvent_customersGroup(restaurantId, transaction) ==
    /\ events' = Append(events, [restaurantId |-> restaurantId, transaction |-> transaction])
    /\ publish(customers[ledger[transaction].customerId].restaurantId,
               [restaurantId |-> restaurantId, transaction |-> transaction])

\* emitTransactionEvent(restaurantId, { transaction, customer })
emitTransactionEvent(restaurantId, transaction) ==
    /\ events' = Append(events, [restaurantId |-> restaurantId, transaction |-> transaction])
    /\ publish(restaurantId, [restaurantId |-> restaurantId, transaction |-> transaction])

(***************************************************************************)
(* Capacity of the model: a call is admitted only if the rows it may       *)
(* insert still fit.                                                       *)
(***************************************************************************)
MayInsertCustomer(q) ==
    pc[q] \in {"cc_start", "cc_generate", "cc_createCustomer"}

MayInsertEntry(q) ==
    \/ (pc[q] = "cc_start" /\ trimId(req[q].restaurantId) # NullId)
    \/ (pc[q] \in {"cc_generate", "cc_createCustomer"} /\ loc[q].rid # NullId)
    \/ pc[q] \in {"cc_createTransaction", "ct_start", "ct_balance", "ct_create"}

CustomerFits == Len(customers) + Cardinality({q \in Procs : MayInsertCustomer(q)}) < MaxCustomers
EntryFits(rows) == Len(ledger) + Cardinality({q \in Procs : MayInsertEntry(q)}) < rows

\* the admission of a registration / of a posting
RegistrationFits(restaurantId, rows) ==
    CustomerFits /\ (trimId(restaurantId) # NullId => EntryFits(rows))

(***************************************************************************)
(* createCustomer (customerController.ts)                                  *)
(***************************************************************************)
\* setImmediate(async () => { ... sendCustomerWelcomeEmail ... }) of lines
\* 125-145: the task is queued and runs after the response
setImmediate(customerId) == welcome' = welcome \cup {<<customerId, "scheduled">>}

\* the task of lines 125-145 runs: the email is sent, or the restaurant lookup
\* or the provider fails, which the task's own catch logs
sendCustomerWelcomeEmail(customerId) ==
    /\ <<customerId, "scheduled">> \in welcome
    /\ \E outcome \in {"sent", "failed"} :
          welcome' = (welcome \ {<<customerId, "scheduled">>}) \cup {<<customerId, outcome>>}
    /\ UNCHANGED <<customers, ledger, events, env, pc, req, loc, resp, pushVars, fanoutVars>>

request_createCustomer(p, email, restaurantId) ==
    /\ Receive(p, [NoReq EXCEPT !.op = "createCustomer", !.email = email,
                                !.restaurantId = restaurantId], "cc_start")
    /\ UNCHANGED <<customers, ledger, events, env, pushVars, fanoutVars, welcome>>

\* lines 30-80: the body is validated, the email looked up (409 when taken), and
\* generateMemberCode is called with the trimmed restaurantId
createCustomer(p) ==
    /\ pc[p] = "cc_start"
    /\ LET email == req[p].email
           normalizedEmail == toLowerCase(trim(email))
       IN IF Len(email) = 0 \/ Len(trim(email)) = 0 \/ ~EmailRegex(trim(email))
          THEN Respond(p, 400, "Please provide a valid email address", 0, 0, 0)
          ELSE IF findCustomerByEmail(normalizedEmail)
          THEN Respond(p, 409, "Customer with this email already exists", 0, 0, 0)
          ELSE Goto(p, "cc_generate",
                    [NoLoc EXCEPT !.normalizedEmail = normalizedEmail,
                                  !.rid = trimId(req[p].restaurantId)])
    /\ UNCHANGED <<customers, ledger, events, env, pushVars, fanoutVars, welcome>>

\* lines 12-23: one round of generateMemberCode: a draw and its findFirst
generateMemberCode(p) ==
    /\ pc[p] = "cc_generate"
    /\ \E k \in 0..(RandDenom - 1) :
          LET code == drawCode(k) IN
          IF ~memberCodeExists(loc[p].rid, code)
          THEN Goto(p, "cc_createCustomer", [loc[p] EXCEPT !.memberCode = code])
          ELSE IF anotherAttempt(loc[p].attempt)
          THEN Goto(p, "cc_generate", [loc[p] EXCEPT !.attempt = @ + 1])
          ELSE Respond(p, 500, "Failed to generate unique member code", 0, 0, 0)
    /\ UNCHANGED <<customers, ledger, events, env, pushVars, fanoutVars, welcome>>

\* lines 82-91 (and 147-151 when there is no restaurant): prisma.customer.create
createCustomer_create(p) ==
    /\ pc[p] = "cc_createCustomer"
    /\ LET row == [email |-> loc[p].normalizedEmail, memberCode |-> loc[p].memberCode,
                   restaurantId |-> loc[p].rid]
           id == Len(customers) + 1
       IN IF /\ Customer_email_key(row)
             /\ Customer_restaurantId_memberCode_key(row)
             /\ Customer_restaurantId_fkey(row)
          THEN /\ customers' = Append(customers, row)
               /\ IF row.restaurantId # NullId
                  THEN /\ Goto(p, "cc_createTransaction", [loc[p] EXCEPT !.savedCustomer = id])
                       /\ UNCHANGED welcome
                  ELSE /\ setImmediate(id)
                       /\ Respond(p, 201, "Customer created successfully", id, 0, 0)
          ELSE /\ UNCHANGED <<customers, welcome>>
               /\ Respond(p, 500, constraintFailed(row), 0, 0, 0)
    /\ UNCHANGED <<ledger, events, env, pushVars, fanoutVars>>

\* lines 93-111: prisma.transaction.create of the REGISTRATION entry; the store
\* may fail the statement, which the catch of lines 152-159 answers
createCustomer_createTransaction(p) ==
    /\ pc[p] = "cc_createTransaction"
    /\ \E stored \in BOOLEAN :
          LET row == registrationEntry(loc[p].savedCustomer, loc[p].rid) IN
          IF stored /\ Transaction_fkeys(row)
          THEN /\ ledger' = Append(ledger, row)
               /\ Goto(p, "cc_emit", [loc[p] EXCEPT !.registrationTransaction = Len(ledger) + 1])
          ELSE /\ ledger' = ledger
               /\ Respond(p, 500, "Transaction insert failed", 0, 0, 0)
    /\ UNCHANGED <<customers, events, env, pushVars, fanoutVars, welcome>>

\* lines 113-151: prisma.transaction.findUnique reads the entry back; the entry
\* is emitted, the welcome email is left to setImmediate, and 201 is answered;
\* when the store fails the statement, the catch of lines 152-159 answers 500
createCustomer_emit(p) ==
    /\ pc[p] = "cc_emit"
    /\ \E read \in BOOLEAN :
          IF read
          THEN /\ IF loc[p].registrationTransaction \in 1..Len(ledger)
                  THEN emitTransactionEvent(loc[p].rid, loc[p].registrationTransaction)
                  ELSE UNCHANGED <<events, inbox>>
               /\ setImmediate(loc[p].savedCustomer)
               /\ Respond(p, 201, "Customer created successfully", loc[p].savedCustomer,
                          loc[p].registrationTransaction, 0)
          ELSE /\ UNCHANGED <<events, inbox, welcome>>
               /\ Respond(p, 500, "Transaction read failed", 0, 0, 0)
    /\ UNCHANGED <<customers, ledger, env, pushVars, rooms>>

(***************************************************************************)
(* createTransaction (transactionController.ts)                            *)
(***************************************************************************)
request_createTransaction(p, r) ==
    /\ r.op = "createTransaction"
    /\ Receive(p, r, "ct_start")
    /\ UNCHANGED <<customers, ledger, events, env, pushVars, fanoutVars, welcome>>

\* a statement that writes over the customer's latest entry when it has one
createTransaction_create_overLatest(p) ==
    /\ pc[p] = "ct_create"
    /\ LET row == postedEntry(req[p], loc[p].balanceAfter)
           own == {i \in 1..Len(ledger) : ledger[i].customerId = row.customerId}
           latest == CHOOSE i \in own : \A j \in own : j <= i
       IN IF ~Transaction_fkeys(row)
          THEN /\ ledger' = ledger
               /\ Respond(p, 500, "Transaction insert failed", 0, 0, 0)
          ELSE IF own = {}
          THEN /\ ledger' = Append(ledger, row)
               /\ Goto(p, "ct_emit", [loc[p] EXCEPT !.savedTransaction = Len(ledger) + 1])
          ELSE /\ ledger' = [ledger EXCEPT ![latest] = row]
               /\ Goto(p, "ct_emit", [loc[p] EXCEPT !.savedTransaction = latest])
    /\ UNCHANGED <<customers, events, env, pushVars, fanoutVars, welcome>>

\* a handler that checks the sign only after it has inserted the entry
createTransaction_signAfterInsert(p) ==
    /\ pc[p] = "ct_start"
    /\ LET r == req[p] IN
       IF \/ r.customerId = 0 \/ r.restaurantId = NullId \/ r.type = ""
          \/ ~r.hasAmount \/ r.description = ""
       THEN /\ ledger' = ledger
            /\ Respond(p, 400,
                  "Please provide customerId, restaurantId, type, amount, and description",
                  0, 0, 0)
       ELSE IF ~findCustomerById(r.customerId)
       THEN ledger' = ledger /\ Respond(p, 404, "Customer not found", 0, 0, 0)
       ELSE IF r.type \notin validTypes
       THEN ledger' = ledger /\ Respond(p, 400, "Invalid transaction type", 0, 0, 0)
       ELSE IF signMessage(r.type, r.amount) # ""
       THEN /\ ledger' = Append(ledger, postedEntry(r, calculateCustomerBalance(r.customerId)))
            /\ Respond(p, 400, signMessage(r.type, r.amount), 0, 0, 0)
       ELSE ledger' = ledger /\ Goto(p, "ct_balance", NoLoc)
    /\ UNCHANGED <<customers, events, env, pushVars, fanoutVars, welcome>>

\* a handler that refuses a posting that would take the balance below zero
createTransaction_refusingOverdraft(p) ==
    /\ pc[p] = "ct_start"
    /\ LET r == req[p] IN
       IF \/ r.customerId = 0 \/ r.restaurantId = NullId \/ r.type = ""
          \/ ~r.hasAmount \/ r.description = ""
       THEN Respond(p, 400,
                    "Please provide customerId, restaurantId, type, amount, and description",
                    0, 0, 0)
       ELSE IF ~findCustomerById(r.customerId)
       THEN Respond(p, 404, "Customer not found", 0, 0, 0)
       ELSE IF r.type \notin validTypes
       THEN Respond(p, 400, "Invalid transaction type", 0, 0, 0)
       ELSE IF signMessage(r.type, r.amount) # ""
       THEN Respond(p, 400, signMessage(r.type, r.amount), 0, 0, 0)
       ELSE IF calculateCustomerBalance(r.customerId) + r.amount < 0
       THEN Respond(p, 400, "Insufficient balance", 0, 0, 0)
       ELSE Goto(p, "ct_balance", NoLoc)
    /\ UNCHANGED <<customers, ledger, events, env, pushVars, fanoutVars, welcome>>

\* a handler that checks the type before it looks the customer up
createTransaction_typeBeforeCustomer(p) ==
    /\ pc[p] = "ct_start"
    /\ LET r == req[p] IN
       IF \/ r.customerId = 0 \/ r.restaurantId = NullId \/ r.type = ""
          \/ ~r.hasAmount \/ r.description = ""
       THEN Respond(p, 400,
                    "Please provide customerId, restaurantId, type, amount, and description",
                    0, 0, 0)
       ELSE IF r.type \notin validTypes
       THEN Respond(p, 400, "Invalid transaction type", 0, 0, 0)
       ELSE IF ~findCustomerById(r.customerId)
       THEN Respond(p, 404, "Customer not found", 0, 0, 0)
       ELSE IF signMessage(r.type, r.amount) # ""
       THEN Respond(p, 400, signMessage(r.type, r.amount), 0, 0, 0)
       ELSE Goto(p, "ct_balance", NoLoc)
    /\ UNCHANGED <<customers, ledger, events, env, pushVars, fanoutVars, welcome>>

\* lines 25-71: presence of the five fields, 404 for an unknown customer, then
\* the type and the sign checks
createTransaction(p) ==
    /\ pc[p] = "ct_start"
    /\ LET r == req[p] IN
       IF \/ r.customerId = 0 \/ r.restaurantId = NullId \/ r.type = ""
          \/ ~r.hasAmount \/ r.description = ""
       THEN Respond(p, 400,
                    "Please provide customerId, restaurantId, type, amount, and description",
                    0, 0, 0)
       ELSE IF ~findCustomerById(r.customerId)
       THEN Respond(p, 404, "Customer not found", 0, 0, 0)
       ELSE IF r.type \notin validTypes
       THEN Respond(p, 400, "Invalid transaction type", 0, 0, 0)
       ELSE IF signMessage(r.type, r.amount) # ""
       THEN Respond(p, 400, signMessage(r.type, r.amount), 0, 0, 0)
       ELSE Goto(p, "ct_balance", NoLoc)
    /\ UNCHANGED <<customers, ledger, events, env, pushVars, fanoutVars, welcome>>

\* a handler that emits the event of its entry before it has inserted it
createTransaction_balance_emitFirst(p) ==
    /\ pc[p] = "ct_balance"
    /\ emitTransactionEvent(req[p].restaurantId, Len(ledger) + 1)
    /\ Goto(p, "ct_create",
            [loc[p] EXCEPT !.balanceAfter =
                computeBalanceAfter(calculateCustomerBalance(req[p].customerId),
                                    req[p].amount)])
    /\ UNCHANGED <<customers, ledger, env, pushVars, rooms, welcome>>

\* lines 71-72: the balance is read and balanceAfter computed
createTransaction_balance(p) ==
    /\ pc[p] = "ct_balance"
    /\ Goto(p, "ct_create",
            [loc[p] EXCEPT !.balanceAfter =
                computeBalanceAfter(calculateCustomerBalance(req[p].customerId),
                                    req[p].amount)])
    /\ UNCHANGED <<customers, ledger, events, env, pushVars, fanoutVars, welcome>>

\* lines 74-85: prisma.transaction.create; a refused or failed statement is
\* answered by the catch of lines 106-113
createTransaction_create(p) ==
    /\ pc[p] = "ct_create"
    /\ \E stored \in BOOLEAN :
          LET row == postedEntry(req[p], loc[p].balanceAfter) IN
          IF stored /\ Transaction_fkeys(row)
          THEN /\ ledger' = Append(ledger, row)
               /\ Goto(p, "ct_emit", [loc[p] EXCEPT !.savedTransaction = Len(ledger) + 1])
          ELSE /\ ledger' = ledger
               /\ Respond(p, 500, "Transaction insert failed", 0, 0, 0)
    /\ UNCHANGED <<customers, events, env, pushVars, fanoutVars, welcome>>

\* lines 87-105: prisma.transaction.findUnique reads the entry back; the entry
\* is emitted and 201 carries it, with the entry's own balanceAfter as balance;
\* when the store fails the statement, the catch of lines 106-113 answers 500
createTransaction_emit(p) ==
    /\ pc[p] = "ct_emit"
    /\ \E read \in BOOLEAN :
          IF read
          THEN /\ IF loc[p].savedTransaction \in 1..Len(ledger)
                  THEN emitTransactionEvent(req[p].restaurantId, loc[p].savedTransaction)
                  ELSE UNCHANGED <<events, inbox>>
               /\ Respond(p, 201, "Transaction created successfully", 0,
                          loc[p].savedTransaction, 0)
          ELSE /\ UNCHANGED <<events, inbox>>
               /\ Respond(p, 500, "Transaction read failed", 0, 0, 0)
    /\ UNCHANGED <<customers, ledger, env, pushVars, rooms, welcome>>

(***************************************************************************)
(* getCustomerBalance (transactionController.ts)                           *)
(***************************************************************************)
request_getCustomerBalance(p, customerId) ==
    /\ Receive(p, [NoReq EXCEPT !.op = "getCustomerBalance", !.customerId = customerId],
               "gb_start")
    /\ UNCHANGED <<customers, ledger, events, env, pushVars, fanoutVars, welcome>>

\* lines 174-186: 404 for an unknown customer
getCustomerBalance(p) ==
    /\ pc[p] = "gb_start"
    /\ IF ~findCustomerById(req[p].customerId)
       THEN Respond(p, 404, "Customer not found", 0, 0, 0)
       ELSE Goto(p, "gb_balance", NoLoc)
    /\ UNCHANGED <<customers, ledger, events, env, pushVars, fanoutVars, welcome>>

\* lines 188-193: the balance is aggregated and answered
getCustomerBalance_balance(p) ==
    /\ pc[p] = "gb_balance"
    /\ Respond(p, 200, "Balance retrieved successfully", req[p].customerId, 0,
               calculateCustomerBalance(req[p].customerId))
    /\ UNCHANGED <<customers, ledger, events, env, pushVars, fanoutVars, welcome>>

(***************************************************************************)
(* getCustomerTransactions (transactionController.ts)                      *)
(***************************************************************************)
\* the ids of a customer's entries, the oldest first
RECURSIVE entryIds(_, _)
entryIds(rows, customerId) ==
    IF Len(rows) = 0 THEN <<>>
    ELSE IF rows[Len(rows)].customerId = customerId
    THEN Append(entryIds(SubSeq(rows, 1, Len(rows) - 1), customerId), Len(rows))
    ELSE entryIds(SubSeq(rows, 1, Len(rows) - 1), customerId)

reverse(s) == [i \in 1..Len(s) |-> s[Len(s) + 1 - i]]

\* a listing in the order of insertion
findManyTransactions_oldestFirst(customerId, skip, take) ==
    LET ordered == entryIds(ledger, customerId)
        last == IF skip + take < Len(ordered) THEN skip + take ELSE Len(ordered)
    IN SubSeq(ordered, skip + 1, last)

\* prisma.transaction.findMany({ where: { customerId }, orderBy: { createdAt:
\* 'desc' }, skip, take }): createdAt is the time of insertion
findManyTransactions(customerId, skip, take) ==
    LET ordered == reverse(entryIds(ledger, customerId))
        last == IF skip + take < Len(ordered) THEN skip + take ELSE Len(ordered)
    IN SubSeq(ordered, skip + 1, last)

\* prisma.transaction.count({ where: { customerId } })
countTransactions(customerId) == Len(entryIds(ledger, customerId))

\* parseInt(req.query.page || '1', 10) and parseInt(req.query.limit || '50', 10)
pageOf(r) == parseInt(IF Len(r.page) = 0 THEN <<1>> ELSE r.page)
limitOf(r) == parseInt(IF Len(r.limit) = 0 THEN String(DefaultLimit) ELSE r.limit)

\* const skip = (page - 1) * limit
skipOf(r) == (pageOf(r) - 1) * limitOf(r)

request_getCustomerTransactions(p, customerId, page, limit) ==
    /\ Receive(p, [NoReq EXCEPT !.op = "getCustomerTransactions", !.customerId = customerId,
                                !.page = page, !.limit = limit], "gh_start")
    /\ UNCHANGED <<customers, ledger, events, env, pushVars, fanoutVars, welcome>>

\* lines 121-146: 404 for an unknown customer; otherwise the three statements
\* of the Promise.all are issued
getCustomerTransactions(p) ==
    /\ pc[p] = "gh_start"
    /\ IF ~findCustomerById(req[p].customerId)
       THEN Respond(p, 404, "Customer not found", 0, 0, 0)
       ELSE Goto(p, "gh_reads", [NoLoc EXCEPT !.pending = {"findMany", "count", "aggregate"}])
    /\ UNCHANGED <<customers, ledger, events, env, pushVars, fanoutVars, welcome>>

\* res.status(200).json({ data: { transactions, total, page, limit, balance } })
RespondHistory(p, locals) ==
    /\ pc' = [pc EXCEPT ![p] = "idle"]
    /\ req' = [req EXCEPT ![p] = NoReq]
    /\ loc' = [loc EXCEPT ![p] = NoLoc]
    /\ resp' = [resp EXCEPT ![p] =
                  [NoResp EXCEPT !.op = req[p].op, !.status = 200,
                                 !.message = "Transactions retrieved successfully",
                                 !.customer = req[p].customerId,
                                 !.transactions = locals.transactions,
                                 !.total = locals.total, !.page = pageOf(req[p]),
                                 !.limit = limitOf(req[p]), !.balance = locals.balance]]

\* lines 137-158: one statement of the Promise.all completes, in any order; a
\* negative skip is refused by the client and the call answers 500 (lines
\* 159-166); when the last statement has completed the call answers 200
getCustomerTransactions_read(p) ==
    /\ pc[p] = "gh_reads"
    /\ \E statement \in loc[p].pending :
          LET customerId == req[p].customerId
              locals ==
                  [loc[p] EXCEPT
                     !.pending = @ \ {statement},
                     !.transactions =
                         IF statement = "findMany" /\ skipOf(req[p]) >= 0
                         THEN findManyTransactions(customerId, skipOf(req[p]), limitOf(req[p]))
                         ELSE @,
                     !.total = IF statement = "count" THEN countTransactions(customerId) ELSE @,
                     !.balance = IF statement = "aggregate"
                                 THEN calculateCustomerBalance(customerId) ELSE @]
          IN IF statement = "findMany" /\ skipOf(req[p]) < 0
             THEN Respond(p, 500, "Invalid value for skip argument", 0, 0, 0)
             ELSE IF locals.pending = {}
             THEN RespondHistory(p, locals)
             ELSE Goto(p, "gh_reads", locals)
    /\ UNCHANGED <<customers, ledger, events, env, pushVars, fanoutVars, welcome>>

(***************************************************************************)
(* getRestaurantTransactions (transactionController.ts)                    *)
(***************************************************************************)
\* the ids of the entries posted under a restaurant, the oldest first
RECURSIVE restaurantEntryIds(_, _)
restaurantEntryIds(rows, restaurantId) ==
    IF Len(rows) = 0 THEN <<>>
    ELSE IF rows[Len(rows)].restaurantId = restaurantId
    THEN Append(restaurantEntryIds(SubSeq(rows, 1, Len(rows) - 1), restaurantId), Len(rows))
    ELSE restaurantEntryIds(SubSeq(rows, 1, Len(rows) - 1), restaurantId)

\* prisma.transaction.findMany({ where: { restaurantId }, orderBy: { createdAt:
\* 'desc' }, take })
findManyByRestaurant(restaurantId, take) ==
    LET ordered == reverse(restaurantEntryIds(ledger, restaurantId))
    IN SubSeq(ordered, 1, IF take < Len(ordered) THEN take ELSE Len(ordered))

request_getRestaurantTransactions(p, restaurantId, limit) ==
    /\ Receive(p, [NoReq EXCEPT !.op = "getRestaurantTransactions",
                                !.restaurantId = restaurantId, !.limit = limit], "gf_start")
    /\ UNCHANGED <<customers, ledger, events, env, pushVars, fanoutVars, welcome>>

\* lines 208-230: the restaurant is required; its latest entries are answered
getRestaurantTransactions(p) ==
    /\ pc[p] = "gf_start"
    /\ LET limit == parseInt(IF Len(req[p].limit) = 0 THEN String(DefaultFeedLimit)
                             ELSE req[p].limit)
       IN IF req[p].restaurantId = NullId
          THEN Respond(p, 400, "Restaurant ID is required", 0, 0, 0)
          ELSE RespondHistory(p, [NoLoc EXCEPT !.transactions =
                                     findManyByRestaurant(req[p].restaurantId, limit)])
    /\ UNCHANGED <<customers, ledger, events, env, pushVars, fanoutVars, welcome>>

(***************************************************************************)
(* Notification permissions (the notification handlers of                  *)
(* transactionController.ts)                                               *)
(***************************************************************************)
\* the row of the unique index "NotificationPermission_customerId_restaurantId_key"
permissionOf(customerId, restaurantId) ==
    {r \in permissions : r.customerId = customerId /\ r.restaurantId = restaurantId}

\* a client that writes NULL for a field given as undefined
prismaSet_nullWhenUndefined(old, given) == IF given = Undefined THEN NoSubscription ELSE given

\* Prisma writes a field of `data` only when it is given: undefined leaves the
\* column as it is
prismaSet(old, given) == IF given = Undefined THEN old ELSE given

\* foreign keys "NotificationPermission_customerId_fkey" and
\* "NotificationPermission_restaurantId_fkey"
NotificationPermission_fkeys(customerId, restaurantId) ==
    customerId \in CustomerIds /\ restaurantId \in Restaurants

request_createNotificationPermission(p, customerId, restaurantId, hasPermissionGranted, permissionGranted, pushSubscription) ==
    /\ Receive(p, [NoReq EXCEPT !.op = "createNotificationPermission",
                                !.customerId = customerId, !.restaurantId = restaurantId,
                                !.hasPermissionGranted = hasPermissionGranted,
                                !.permissionGranted = permissionGranted,
                                !.pushSubscription = pushSubscription], "cn_start")
    /\ UNCHANGED <<customers, ledger, events, env, pushVars, fanoutVars, welcome>>

\* lines 256-275: both ids are required, 404 for an unknown customer
createNotificationPermission(p) ==
    /\ pc[p] = "cn_start"
    /\ IF req[p].customerId = 0 \/ req[p].restaurantId = NullId
       THEN Respond(p, 400, "Customer ID and Restaurant ID are required", 0, 0, 0)
       ELSE IF ~findCustomerById(req[p].customerId)
       THEN Respond(p, 404, "Customer not found", 0, 0, 0)
       ELSE Goto(p, "cn_upsert", NoLoc)
    /\ UNCHANGED <<customers, ledger, events, env, pushVars, fanoutVars, welcome>>

\* lines 277-297: prisma.notificationPermission.upsert and 201; a subscription
\* the request leaves out is `undefined` in both branches
createNotificationPermission_upsert(p) ==
    /\ pc[p] = "cn_upsert"
    /\ LET r == req[p]
           granted == IF r.hasPermissionGranted THEN r.permissionGranted ELSE FALSE
           old == permissionOf(r.customerId, r.restaurantId)
       IN IF old # {}
          THEN /\ permissions' =
                     {IF row \in old
                      THEN [row EXCEPT !.permissionGranted = granted,
                                       !.pushSubscription = prismaSet(@, r.pushSubscription)]
                      ELSE row : row \in permissions}
               /\ pruned' = IF r.pushSubscription = Undefined
                            THEN pruned ELSE pruned \ {row.id : row \in old}
               /\ UNCHANGED permissionIds
               /\ Respond(p, 201, "Notification permission saved successfully",
                          r.customerId, 0, 0)
          ELSE IF NotificationPermission_fkeys(r.customerId, r.restaurantId)
          THEN /\ permissions' = permissions \cup
                     {[id |-> permissionIds + 1, customerId |-> r.customerId,
                       restaurantId |-> r.restaurantId, permissionGranted |-> granted,
                       pushSubscription |-> prismaSet(NoSubscription, r.pushSubscription)]}
               /\ permissionIds' = permissionIds + 1
               /\ UNCHANGED pruned
               /\ Respond(p, 201, "Notification permission saved successfully",
                          r.customerId, 0, 0)
          ELSE /\ UNCHANGED <<permissions, permissionIds, pruned>>
               /\ Respond(p, 500, "Foreign key constraint failed", 0, 0, 0)
    /\ UNCHANGED <<customers, ledger, events, env, vapid, fanoutVars, welcome>>

request_deleteNotificationPermission(p, customerId, restaurantId) ==
    /\ Receive(p, [NoReq EXCEPT !.op = "deleteNotificationPermission",
                                !.customerId = customerId, !.restaurantId = restaurantId],
               "dn_start")
    /\ UNCHANGED <<customers, ledger, events, env, pushVars, fanoutVars, welcome>>

\* lines 358-388: prisma.notificationPermission.delete; P2025 (no such row) is 404
deleteNotificationPermission(p) ==
    /\ pc[p] = "dn_start"
    /\ LET old == permissionOf(req[p].customerId, req[p].restaurantId) IN
       IF req[p].customerId = 0 \/ req[p].restaurantId = NullId
       THEN /\ UNCHANGED <<permissions, pruned>>
            /\ Respond(p, 400, "Customer ID and Restaurant ID are required", 0, 0, 0)
       ELSE IF old = {}
       THEN /\ UNCHANGED <<permissions, pruned>>
            /\ Respond(p, 404, "Notification permission not found", 0, 0, 0)
       ELSE /\ permissions' = permissions \ old
            /\ pruned' = pruned \ {row.id : row \in old}
            /\ Respond(p, 200, "Notification permission revoked successfully", 0, 0, 0)
    /\ UNCHANGED <<customers, ledger, events, env, permissionIds, vapid, fanoutVars, welcome>>

(***************************************************************************)
(* sendNotification (transactionController.ts) and                         *)
(* sendNotificationToRestaurant (notificationService.ts)                   *)
(***************************************************************************)
\* the elements of a sequence
Elements(s) == {s[i] : i \in 1..Len(s)}

\* customerIds && customerIds.length > 0
customerIdsGiven(r) == r.hasCustomerIds /\ Len(r.customerIds) > 0

\* prisma.notificationPermission.findMany({ where }) of lines 33-43
findManyPermissions(r) ==
    {row \in permissions :
        /\ row.restaurantId = r.restaurantId
        /\ row.permissionGranted
        /\ customerIdsGiven(r) => row.customerId \in Elements(r.customerIds)}

\* a filter that lets every granted row through
permissionsWithSubscription_unfiltered(rows) == rows

\* lines 53-56: the rows whose pushSubscription has an endpoint
permissionsWithSubscription(rows) ==
    {row \in rows : row.pushSubscription # NoSubscription}

\* no promise of the Promise.allSettled is pending
allSettled(results) ==
    \A id \in DOMAIN results : results[id] \notin {"sending", "pruning"}

\* lines 111-113: the fulfilled results with success
countSent(results) == Cardinality({id \in DOMAIN results : results[id] = "success"})

\* a count of the fulfilled failures alone
countFailed_fulfilledOnly(results) ==
    Cardinality({id \in DOMAIN results : results[id] \in {"gone", "error"}})

\* line 114: failed = results.length - sent
countFailed(results) == Cardinality(DOMAIN results) - countSent(results)

\* lines 115-123: the message of every result that is rejected or not a success
errorsOf(results) ==
    {<<id, results[id]>> : id \in {i \in DOMAIN results : results[i] # "success"}}

\* a promise of the map has settled: when it is the last one, lines 111-125 and
\* the 200 of lines 430-445 follow; otherwise the call still waits
Settle(p, results) ==
    IF allSettled(results)
    THEN RespondSend(p, "Notification sent", countSent(results), countFailed(results),
                     errorsOf(results))
    ELSE Goto(p, "sn_sending", [loc[p] EXCEPT !.results = results])

request_sendNotification(p, restaurantId, title, body, hasCustomerIds, customerIds) ==
    /\ Receive(p, [NoReq EXCEPT !.op = "sendNotification", !.restaurantId = restaurantId,
                                !.title = title, !.body = body,
                                !.hasCustomerIds = hasCustomerIds,
                                !.customerIds = customerIds], "sn_start")
    /\ UNCHANGED <<customers, ledger, events, env, pushVars, fanoutVars, welcome>>

\* a handler that lets an empty customerIds array through
sendNotification_emptyMeansAll(p) ==
    /\ pc[p] = "sn_start"
    /\ LET r == req[p]
           found == findManyPermissions(r)
           targets == permissionsWithSubscription(found)
       IN IF r.restaurantId = NullId \/ r.title = "" \/ r.body = ""
          THEN Respond(p, 400, "Restaurant ID, title, and body are required", 0, 0, 0)
          ELSE IF ~vapid
          THEN Respond(p, 500, "VAPID keys are not configured", 0, 0, 0)
          ELSE IF found = {}
          THEN RespondSend(p, "Notification sent", 0, 0, {<<0, "No customers found">>})
          ELSE IF targets = {}
          THEN RespondSend(p, "Notification sent", 0, 0, {<<0, "No push subscriptions found">>})
          ELSE Goto(p, "sn_sending",
                    [NoLoc EXCEPT !.targets = targets,
                                  !.results = [id \in {row.id : row \in targets} |-> "sending"]])
    /\ UNCHANGED <<customers, ledger, events, env, pushVars, fanoutVars, welcome>>

\* transactionController.ts lines 404-428 and notificationService.ts lines 25-93:
\* the body is validated, the VAPID keys are required, the rows are read and
\* filtered, and webpush.sendNotification is called for every row that is left
sendNotification(p) ==
    /\ pc[p] = "sn_start"
    /\ LET r == req[p]
           found == findManyPermissions(r)
           targets == permissionsWithSubscription(found)
       IN IF r.restaurantId = NullId \/ r.title = "" \/ r.body = ""
          THEN Respond(p, 400, "Restaurant ID, title, and body are required", 0, 0, 0)
          ELSE IF r.hasCustomerIds /\ Len(r.customerIds) = 0
          THEN Respond(p, 400, "customerIds array cannot be empty", 0, 0, 0)
          ELSE IF ~vapid
          THEN Respond(p, 500, "VAPID keys are not configured", 0, 0, 0)
          ELSE IF found = {}
          THEN RespondSend(p, "Notification sent", 0, 0, {<<0, "No customers found">>})
          ELSE IF targets = {}
          THEN RespondSend(p, "Notification sent", 0, 0, {<<0, "No push subscriptions found">>})
          ELSE Goto(p, "sn_sending",
                    [NoLoc EXCEPT !.targets = targets,
                                  !.results = [id \in {row.id : row \in targets} |-> "sending"]])
    /\ UNCHANGED <<customers, ledger, events, env, pushVars, fanoutVars, welcome>>

\* lines 93-106: webpush.sendNotification of one target settles: it resolves, or
\* it fails with 404/410 (the update of lines 101-104 is then awaited), or it
\* fails with another error
sendNotificationToRestaurant_settle(p) ==
    /\ pc[p] = "sn_sending"
    /\ \E id \in DOMAIN loc[p].results, outcome \in {"success", "pruning", "error"} :
          /\ loc[p].results[id] = "sending"
          /\ Settle(p, [loc[p].results EXCEPT ![id] = outcome])
    /\ UNCHANGED <<customers, ledger, events, env, pushVars, fanoutVars, welcome>>

\* lines 100-106: prisma.notificationPermission.update({ where: { id },
\* data: { pushSubscription: undefined } }); the statement is refused when the
\* row is gone (or by a client that refuses undefined), and the promise of the
\* target is then rejected
sendNotificationToRestaurant_prune(p) ==
    /\ pc[p] = "sn_sending"
    /\ \E id \in DOMAIN loc[p].results, accepted \in BOOLEAN :
          /\ loc[p].results[id] = "pruning"
          /\ IF accepted /\ \E row \in permissions : row.id = id
             THEN /\ permissions' =
                        {IF row.id = id
                         THEN [row EXCEPT !.pushSubscription = prismaSet(@, Undefined)]
                         ELSE row : row \in permissions}
                  /\ pruned' = pruned \cup {id}
                  /\ Settle(p, [loc[p].results EXCEPT ![id] = "gone"])
             ELSE /\ UNCHANGED <<permissions, pruned>>
                  /\ Settle(p, [loc[p].results EXCEPT ![id] = "rejected"])
    /\ UNCHANGED <<customers, ledger, events, env, permissionIds, vapid, fanoutVars, welcome>>

(***************************************************************************)
(* searchCustomer (customerController.ts)                                  *)
(***************************************************************************)
Digits == <<"0", "1", "2", "3", "4", "5", "6", "7", "8", "9">>

IsDigit(ch) == \E d \in 1..Len(Digits) : Digits[d] = ch

\* the text of a member code (a sequence of decimal digits)
digitChars(code) == [i \in 1..Len(code) |-> Digits[code[i] + 1]]

\* phone.replace(/\D/g, '') of normalizePhone, q.replace(/\D/g, '')
normalizePhone(s) == SelectSeq(s, IsDigit)

\* q.includes(ch)
includes(s, ch) == \E i \in 1..Len(s) : s[i] = ch

\* q.replace('#', ''): the first '#' is taken out
replaceHash(s) ==
    IF includes(s, "#")
    THEN LET i == CHOOSE k \in 1..Len(s) : s[k] = "#" /\ \A j \in 1..(k - 1) : s[j] # "#"
         IN SubSeq(s, 1, i - 1) \o SubSeq(s, i + 1, Len(s))
    ELSE s

\* the user that owns each restaurant (Restaurant.userId)
restaurantUserId(restaurantId) == IF restaurantId = "R1" THEN "u1" ELSE "u2"

\* prisma.restaurant.findFirst({ where: { userId } })
restaurantsOfUser(userId) == {r \in Restaurants : restaurantUserId(r) = userId}

\* lines 296-312: which of the three queries is made for q
queryKind(q) ==
    IF includes(q, "@") THEN "email"
    ELSE IF (Len(q) > 0 /\ q[1] = "#")
            \/ (Len(normalizePhone(q)) > 0 /\ Len(normalizePhone(q)) <= 6)
    THEN "memberCode"
    ELSE "phone"

\* lines 298, 301, 309: the value the query looks for
queryKey(q) ==
    CASE queryKind(q) = "email" -> toLowerCase(q)
      [] queryKind(q) = "memberCode" ->
            IF normalizePhone(q) # <<>> THEN normalizePhone(q) ELSE replaceHash(q)
      [] OTHER -> q

\* a where clause without the restaurant
customerWhere_unscoped(c, restaurantId, kind, key, digitsOnly) ==
    CASE kind = "email" -> customers[c].email = key
      [] kind = "memberCode" -> digitChars(customers[c].memberCode) = key
      [] OTHER -> customers[c].phoneNormalized = digitsOnly \/ customers[c].phone = key

\* the where clauses of lines 297-311: customer c is of the restaurant and its
\* email, its member code, or its phoneNormalized or phone is the one looked for
customerWhere(c, restaurantId, kind, key, digitsOnly) ==
    /\ customers[c].restaurantId = restaurantId
    /\ CASE kind = "email" -> customers[c].email = key
         [] kind = "memberCode" -> digitChars(customers[c].memberCode) = key
         [] OTHER -> customers[c].phoneNormalized = digitsOnly \/ customers[c].phone = key

request_searchCustomer(p, q, restaurantId, userId) ==
    /\ Receive(p, [NoReq EXCEPT !.op = "searchCustomer", !.q = q,
                                !.restaurantId = restaurantId, !.userId = userId],
               "ss_start")
    /\ UNCHANGED <<customers, ledger, events, env, pushVars, fanoutVars, welcome>>

\* lines 262-312: q is required, the restaurant is the one given or else the
\* one of the user (404 when the user has none, 400 when neither is given), and
\* the query is chosen by the shape of q
searchCustomer(p) ==
    /\ pc[p] = "ss_start"
    /\ LET qRaw == trim(req[p].q)
           restaurantIdRaw == trimId(req[p].restaurantId)
           userId == req[p].userId
           query(restaurantId) ==
               Goto(p, "ss_find",
                    [NoLoc EXCEPT !.rid = restaurantId, !.kind = queryKind(qRaw),
                                  !.key = queryKey(qRaw),
                                  !.digitsOnly = normalizePhone(qRaw)])
       IN IF qRaw = <<>>
          THEN Respond(p, 400, "Query parameter q is required", 0, 0, 0)
          ELSE IF restaurantIdRaw = NullId /\ userId # NullId
          THEN IF restaurantsOfUser(userId) = {}
               THEN Respond(p, 404, "Restaurant not found for user", 0, 0, 0)
               ELSE \E restaurantId \in restaurantsOfUser(userId) : query(restaurantId)
          ELSE IF restaurantIdRaw = NullId
          THEN Respond(p, 400, "restaurantId or valid userId is required for scoped search",
                       0, 0, 0)
          ELSE query(restaurantIdRaw)
    /\ UNCHANGED <<customers, ledger, events, env, pushVars, fanoutVars, welcome>>

\* lines 297-319: prisma.customer.findFirst with the where clause of the query;
\* 404 when no row matches, otherwise 200 with a row that does
searchCustomer_find(p) ==
    /\ pc[p] = "ss_find"
    /\ LET matches == {c \in CustomerIds :
                          customerWhere(c, loc[p].rid, loc[p].kind, loc[p].key,
                                        loc[p].digitsOnly)}
       IN IF matches = {}
          THEN Respond(p, 404, "Customer not found", 0, 0, 0)
          ELSE \E c \in matches : Respond(p, 200, "Customer found", c, 0, 0)
    /\ UNCHANGED <<customers, ledger, events, env, pushVars, fanoutVars, welcome>>

(***************************************************************************)
(* Requests of the model                                                   *)
(***************************************************************************)
TransactionRequest(customerId, restaurantId, type, amount, hasAmount, description) ==
    [NoReq EXCEPT !.op = "createTransaction", !.customerId = customerId,
                  !.restaurantId = restaurantId, !.type = type, !.amount = amount,
                  !.hasAmount = hasAmount, !.description = description]

\* registrations: a missing and a malformed email, two addresses, with no
\* restaurant, a blank one, an existing one and an unknown one
EmailInputs ==
    { <<>>, <<"a", "b">>, <<" ", "A", "@", "b", ".", "c">>, <<"d", "@", "b", ".", "c">> }

RestaurantIdInputs == {NullId, "  ", "R1", "RX"}

\* postings: well-formed ones (under a restaurant that is not the customers'),
\* and one request for each way to be refused
PostingInputs ==
    { TransactionRequest(c, "R2", t, a, TRUE, "points") :
        c \in 1..MaxCustomers, t \in {"EARNED", "REDEEMED"}, a \in {50, -30} }
    \cup { TransactionRequest(0, "R1", "EARNED", 50, TRUE, "points"),
           TransactionRequest(1, NullId, "EARNED", 50, TRUE, "points"),
           TransactionRequest(1, "R1", "", 50, TRUE, "points"),
           TransactionRequest(1, "R1", "EARNED", 0, FALSE, "points"),
           TransactionRequest(1, "R1", "EARNED", 50, TRUE, ""),
           TransactionRequest(1, "R1", "BONUS", 50, TRUE, "points"),
           TransactionRequest(1, "RX", "EARNED", 50, TRUE, "points") }

\* the requests of the interleaved runs
ConcurrentEmailInputs == { <<"a", "b">>, <<"a", "@", "b", ".", "c">>, <<"d", "@", "b", ".", "c">> }

ConcurrentRestaurantIdInputs == {NullId, "R1"}

ConcurrentPostingInputs ==
    { TransactionRequest(1, "R2", "EARNED", 50, TRUE, "points"),
      TransactionRequest(1, "R2", "REDEEMED", -30, TRUE, "points"),
      TransactionRequest(1, "R2", "REDEEMED", 30, TRUE, "points"),
      TransactionRequest(1, "R2", "BONUS", 50, TRUE, "points"),
      TransactionRequest(1, "R2", "EARNED", 50, TRUE, ""),
      TransactionRequest(MaxCustomers, "R2", "EARNED", 50, TRUE, "points") }

\* no permission row, the provider configured, nobody joined to a group
InitSide ==
    /\ permissions = {}
    /\ permissionIds = 0
    /\ vapid = TRUE
    /\ pruned = {}
    /\ rooms = [s \in Subscribers |-> {}]
    /\ inbox = [s \in Subscribers |-> <<>>]
    /\ welcome = {}

InitStore ==
    /\ customers = <<>>
    /\ ledger = <<>>
    /\ events = <<>>
    /\ InitSide

InitSlots ==
    /\ pc = [p \in Procs |-> "idle"]
    /\ req = [p \in Procs |-> NoReq]
    /\ loc = [p \in Procs |-> NoLoc]
    /\ resp = [p \in Procs |-> NoResp]

Step(p) ==
    \/ createCustomer(p)
    \/ generateMemberCode(p)
    \/ createCustomer_create(p)
    \/ createCustomer_createTransaction(p)
    \/ createCustomer_emit(p)
    \/ createTransaction(p)
    \/ createTransaction_balance(p)
    \/ createTransaction_create(p)
    \/ createTransaction_emit(p)
    \/ getCustomerBalance(p)
    \/ getCustomerBalance_balance(p)

(***************************************************************************)
(* Spec: requests arrive at any time and their handlers interleave at      *)
(* every await.                                                            *)
(***************************************************************************)
Init ==
    /\ InitStore
    /\ InitSlots
    /\ env = <<1, 0, 0>>

Request(p) ==
    \/ \E email \in ConcurrentEmailInputs, restaurantId \in ConcurrentRestaurantIdInputs :
          RegistrationFits(restaurantId, MaxLedgerShared)
            /\ request_createCustomer(p, email, restaurantId)
    \/ \E r \in ConcurrentPostingInputs :
          EntryFits(MaxLedgerShared) /\ request_createTransaction(p, r)
    \/ request_getCustomerBalance(p, 1)

Next == \E p \in Procs : Request(p) \/ Step(p)

Spec == Init /\ [][Next]_vars

(***************************************************************************)
(* SpecSerial: one request at a time, each answered before the next        *)
(* arrives.                                                                *)
(***************************************************************************)
InitSerial ==
    /\ InitStore
    /\ InitSlots
    /\ env \in {<<>>, <<1, 0, 0>>}

RequestSerial(p) ==
    \/ \E email \in EmailInputs, restaurantId \in RestaurantIdInputs :
          RegistrationFits(restaurantId, MaxLedger)
            /\ request_createCustomer(p, email, restaurantId)
    \/ \E r \in PostingInputs :
          EntryFits(MaxLedger) /\ request_createTransaction(p, r)
    \/ \E customerId \in 1..MaxCustomers : request_getCustomerBalance(p, customerId)

NextSerial == RequestSerial("p1") \/ Step("p1")

SpecSerial == InitSerial /\ [][NextSerial]_vars

(***************************************************************************)
(* SpecPostings: a customer registered in R1 with the welcome bonus, and   *)
(* postings for it that interleave at every await.                         *)
(***************************************************************************)
InitPostings ==
    /\ env = <<1, 0, 0>>
    /\ customers = << [email |-> <<"a", "@", "b", ".", "c">>, memberCode |-> String(CodeBase),
                       restaurantId |-> "R1"] >>
    /\ ledger = << [customerId |-> 1, restaurantId |-> "R1", type |-> "REGISTRATION",
                    amount |-> 100, balanceAfter |-> 100] >>
    /\ events = << [restaurantId |-> "R1", transaction |-> 1] >>
    /\ InitSide
    /\ InitSlots

NextPostings ==
    \E p \in Procs :
        \/ \E r \in ConcurrentPostingInputs :
              EntryFits(MaxLedger) /\ request_createTransaction(p, r)
        \/ createTransaction(p)
        \/ createTransaction_balance(p)
        \/ createTransaction_create(p)
        \/ createTransaction_emit(p)

SpecPostings == InitPostings /\ [][NextPostings]_vars

(***************************************************************************)
(* SpecValidate: the validation of createTransaction on every type and     *)
(* every amount of -MaxAmount..MaxAmount, for a registered customer.       *)
(***************************************************************************)
ValidationInputs ==
    { TransactionRequest(1, "R1", t, a, TRUE, "points") :
        t \in validTypes \cup {"BONUS"}, a \in (-MaxAmount)..MaxAmount }

InitValidate ==
    /\ env = <<>>
    /\ customers = << [email |-> <<"a", "@", "b", ".", "c">>, memberCode |-> String(CodeBase),
                       restaurantId |-> NullId] >>
    /\ ledger = <<>>
    /\ events = <<>>
    /\ InitSide
    /\ InitSlots

NextValidate ==
    \E p \in Procs :
        \/ \E r \in ValidationInputs : request_createTransaction(p, r)
        \/ createTransaction(p)

SpecValidate == InitValidate /\ [][NextValidate]_vars

(***************************************************************************)
(* SpecRegister: registrations only, interleaved at every await, for       *)
(* addresses that differ in case and in surrounding blanks.                *)
(***************************************************************************)
CaseEmailInputs ==
    { <<" ", "A", "@", "b", ".", "c">>, <<"a", "@", "b", ".", "c">>, <<"d", "@", "b", ".", "c">> }

InitRegister ==
    /\ InitStore
    /\ InitSlots
    /\ env = <<1, 0, 0>>

NextRegister ==
    \E p \in Procs :
        \/ \E email \in CaseEmailInputs, restaurantId \in ConcurrentRestaurantIdInputs :
              RegistrationFits(restaurantId, MaxLedgerShared)
                /\ request_createCustomer(p, email, restaurantId)
        \/ createCustomer(p)
        \/ generateMemberCode(p)
        \/ createCustomer_create(p)
        \/ createCustomer_createTransaction(p)
        \/ createCustomer_emit(p)

SpecRegister == InitRegister /\ [][NextRegister]_vars

(***************************************************************************)
(* SpecPush: two customers of R1; permissions are saved and revoked and    *)
(* notifications sent, interleaved at every await.                         *)
(***************************************************************************)
\* the slots of a createNotificationPermission that may still insert a row
MayInsertPermission(q) == pc[q] \in {"cn_start", "cn_upsert"}

PermissionFits ==
    permissionIds + Cardinality({q \in Procs : MayInsertPermission(q)}) < MaxPermissionIds

Endpoints == {"e1"}      \* the endpoints of the subscriptions submitted

InitPush ==
    /\ env = <<>>
    /\ customers = << [email |-> <<"a", "@", "b", ".", "c">>, memberCode |-> String(CodeBase),
                       restaurantId |-> "R1"],
                      [email |-> <<"d", "@", "b", ".", "c">>, memberCode |-> String(CodeBase + 1),
                       restaurantId |-> "R1"] >>
    /\ ledger = <<>>
    /\ events = <<>>
    /\ permissions = {}
    /\ permissionIds = 0
    /\ vapid \in BOOLEAN
    /\ pruned = {}
    /\ rooms = [s \in Subscribers |-> {}]
    /\ inbox = [s \in Subscribers |-> <<>>]
    /\ welcome = {}
    /\ InitSlots

\* the permission requests: every way to save a row, one request for each
\* refusal, and the revocation of one row
RequestPermission(p) ==
    \/ \E customerId \in 1..MaxCustomers, restaurantId \in Restaurants,
          granted \in BOOLEAN, pushSubscription \in {Undefined} \cup Endpoints :
          /\ PermissionFits
          /\ restaurantId = "R2" => customerId = 1
          /\ request_createNotificationPermission(p, customerId, restaurantId, granted,
                                                  granted, pushSubscription)
    \/ \E key \in {<<0, "R1">>, <<MaxCustomers + 1, "R1">>, <<1, "RX">>} :
          /\ PermissionFits
          /\ request_createNotificationPermission(p, key[1], key[2], TRUE, TRUE, "e1")
    \/ request_deleteNotificationPermission(p, 1, "R1")

\* the send requests: with customerIds empty or naming customer 1, with a
\* field missing, and with customerIds left out
RequestSend(p) ==
    \/ \E restaurantId \in {NullId, "R1"}, title \in {"", "title"},
          customerIds \in {<<>>, <<1>>} :
          /\ (restaurantId = NullId \/ title = "") => customerIds = <<>>
          /\ request_sendNotification(p, restaurantId, title, "body", TRUE, customerIds)
    \/ \E restaurantId \in {"R1", "R2"} :
          request_sendNotification(p, restaurantId, "title", "body", FALSE, <<>>)

\* slot p1 serves the sends and slot p2 the permission requests
NextPush ==
    \/ RequestSend("p1")
    \/ sendNotification("p1")
    \/ sendNotificationToRestaurant_settle("p1")
    \/ sendNotificationToRestaurant_prune("p1")
    \/ RequestPermission("p2")
    \/ createNotificationPermission("p2")
    \/ createNotificationPermission_upsert("p2")
    \/ deleteNotificationPermission("p2")

SpecPush == InitPush /\ [][NextPush]_vars

(***************************************************************************)
(* SpecFanout: a customer of R1, postings for it under either restaurant,  *)
(* and subscribers that join and leave the restaurants' groups at any time.*)
(***************************************************************************)
FanoutPostingInputs ==
    { TransactionRequest(1, restaurantId, "EARNED", 50, TRUE, "points") :
        restaurantId \in Restaurants }

InitFanout ==
    /\ env = <<>>
    /\ customers = << [email |-> <<"a", "@", "b", ".", "c">>, memberCode |-> String(CodeBase),
                       restaurantId |-> "R1"] >>
    /\ ledger = <<>>
    /\ events = <<>>
    /\ InitSide
    /\ InitSlots

NextFanout ==
    \/ \E s \in Subscribers, restaurantId \in Restaurants : join(s, restaurantId)
    \/ \E s \in Subscribers, restaurantId \in Restaurants : leave(s, restaurantId)
    \/ \E p \in Procs :
          \/ \E r \in FanoutPostingInputs :
                EntryFits(MaxLedgerShared) /\ request_createTransaction(p, r)
          \/ createTransaction(p)
          \/ createTransaction_balance(p)
          \/ createTransaction_create(p)
          \/ createTransaction_emit(p)

SpecFanout == InitFanout /\ [][NextFanout]_vars

(***************************************************************************)
(* SpecSearch: searches over three registered customers: one of R1, one of *)
(* R2 with the same member code and phone, and one without a restaurant.   *)
(***************************************************************************)
\* the row createCustomer stores for a registration with a phone
customerRow(email, memberCode, restaurantId, phone) ==
    [email |-> email, memberCode |-> memberCode, restaurantId |-> restaurantId,
     phone |-> phone, phoneNormalized |-> normalizePhone(phone)]

QueryInputs ==
    { <<>>,
      <<"a", "@", "b", ".", "c">>,
      <<"A", "@", "b", ".", "c">>,
      <<"e", "@", "b", ".", "c">>,
      <<"1", "2", "3", "4", "5">>,
      <<"#", "1", "2", "3", "4", "5">>,
      <<" ", "1", "2", "3", "4", "5">>,
      <<"1", "2", "-", "3", "4", "5">>,
      <<"5", "5", "5", "-", "1", "2", "3", "4">>,
      <<"5", "5", "5", "1", "2", "3", "4">>,
      <<"5", "5", "5", "-", "9", "9", "9", "9">> }

InitSearch ==
    /\ env = <<>>
    /\ customers =
          << customerRow(<<"a", "@", "b", ".", "c">>, String(12345), "R1",
                         <<"5", "5", "5", "-", "1", "2", "3", "4">>),
             customerRow(<<"d", "@", "b", ".", "c">>, String(12345), "R2",
                         <<"5", "5", "5", "-", "1", "2", "3", "4">>),
             customerRow(<<"e", "@", "b", ".", "c">>, String(12345), NullId,
                         <<"5", "5", "5", "-", "9", "9", "9", "9">>) >>
    /\ ledger = <<>>
    /\ events = <<>>
    /\ InitSide
    /\ InitSlots

NextSearch ==
    \E p \in Procs :
        \/ \E q \in QueryInputs, restaurantId \in {NullId, "  ", "R1", "R2"},
              userId \in {NullId, "u2", "u9"} :
              request_searchCustomer(p, q, restaurantId, userId)
        \/ searchCustomer(p)
        \/ searchCustomer_find(p)

SpecSearch == InitSearch /\ [][NextSearch]_vars

(***************************************************************************)
(* SpecHistory: customer 1 with three entries and customer 2 with one;     *)
(* pages of the history of a customer are read while postings arrive.      *)
(***************************************************************************)
MaxHistory == 5        \* rows of Transaction while histories are read

PageInputs == { <<>>, <<0>>, <<1>>, <<2>>, <<3>> }

LimitInputs == { <<>>, <<0>>, <<1>>, <<2>> }

HistoryPostingInputs ==
    { TransactionRequest(1, "R1", "EARNED", 50, TRUE, "points"),
      TransactionRequest(1, "R2", "REDEEMED", -30, TRUE, "points"),
      TransactionRequest(2, "R1", "EARNED", 50, TRUE, "points") }

InitHistory ==
    /\ env = <<1, 0, 0>>
    /\ customers = << [email |-> <<"a", "@", "b", ".", "c">>, memberCode |-> String(CodeBase),
                       restaurantId |-> "R1"],
                      [email |-> <<"d", "@", "b", ".", "c">>, memberCode |-> String(CodeBase + 1),
                       restaurantId |-> "R1"] >>
    /\ ledger = << [customerId |-> 1, restaurantId |-> "R1", type |-> "REGISTRATION",
                    amount |-> 100, balanceAfter |-> 100],
                   [customerId |-> 2, restaurantId |-> "R1", type |-> "REGISTRATION",
                    amount |-> 100, balanceAfter |-> 100],
                   [customerId |-> 1, restaurantId |-> "R1", type |-> "EARNED",
                    amount |-> 50, balanceAfter |-> 150],
                   [customerId |-> 1, restaurantId |-> "R1", type |-> "REDEEMED",
                    amount |-> -30, balanceAfter |-> 120] >>
    /\ events = <<>>
    /\ InitSide
    /\ InitSlots

\* slot p1 reads histories and slot p2 posts
NextHistory ==
    \/ \E customerId \in {1, MaxCustomers + 1}, page \in PageInputs, limit \in LimitInputs :
          request_getCustomerTransactions("p1", customerId, page, limit)
    \/ getCustomerTransactions("p1")
    \/ getCustomerTransactions_read("p1")
    \/ \E r \in HistoryPostingInputs :
          EntryFits(MaxHistory) /\ request_createTransaction("p2", r)
    \/ createTransaction("p2")
    \/ createTransaction_balance("p2")
    \/ createTransaction_create("p2")
    \/ createTransaction_emit("p2")

SpecHistory == InitHistory /\ [][NextHistory]_vars

(***************************************************************************)
(* SpecLedger: every operation of the interface, one request at a time,    *)
(* from the empty store.                                                   *)
(***************************************************************************)
LedgerEmailInputs == { <<"a", "@", "b", ".", "c">>, <<"d", "@", "b", ".", "c">> }

LedgerPostingInputs ==
    { TransactionRequest(1, "R2", "EARNED", 50, TRUE, "points"),
      TransactionRequest(1, "R2", "REDEEMED", -30, TRUE, "points"),
      TransactionRequest(1, "R2", "REDEEMED", 30, TRUE, "points") }

LedgerQuery == <<"a", "@", "b", ".", "c">>

InitLedger ==
    /\ InitStore
    /\ InitSlots
    /\ env = <<1, 0, 0>>

RequestLedger(p) ==
    \/ \E email \in LedgerEmailInputs, restaurantId \in ConcurrentRestaurantIdInputs :
          RegistrationFits(restaurantId, MaxLedger)
            /\ request_createCustomer(p, email, restaurantId)
    \/ \E r \in LedgerPostingInputs :
          EntryFits(MaxLedger) /\ request_createTransaction(p, r)
    \/ request_getCustomerBalance(p, 1)
    \/ request_getCustomerTransactions(p, 1, <<>>, <<1>>)
    \/ request_getRestaurantTransactions(p, "R2", <<>>)
    \/ request_searchCustomer(p, LedgerQuery, "R1", NullId)
    \/ PermissionFits /\ request_createNotificationPermission(p, 1, "R1", TRUE, TRUE, "e1")
    \/ request_deleteNotificationPermission(p, 1, "R1")
    \/ request_sendNotification(p, "R1", "title", "body", FALSE, <<>>)

StepLedger(p) ==
    \/ Step(p)
    \/ getCustomerTransactions(p)
    \/ getCustomerTransactions_read(p)
    \/ getRestaurantTransactions(p)
    \/ searchCustomer(p)
    \/ searchCustomer_find(p)
    \/ createNotificationPermission(p)
    \/ createNotificationPermission_upsert(p)
    \/ deleteNotificationPermission(p)
    \/ sendNotification(p)
    \/ sendNotificationToRestaurant_settle(p)
    \/ sendNotificationToRestaurant_prune(p)

NextLedger == RequestLedger("p1") \/ StepLedger("p1")

SpecLedger == InitLedger /\ [][NextLedger]_vars

(***************************************************************************)
(* SpecEffects: registrations and postings interleaved at every await,     *)
(* with the welcome-email tasks running at any later time.                 *)
(***************************************************************************)
InitEffects ==
    /\ InitStore
    /\ InitSlots
    /\ env = <<1, 0, 0>>

NextEffects ==
    \/ \E customerId \in CustomerIds : sendCustomerWelcomeEmail(customerId)
    \/ \E p \in Procs :
          \/ \E email \in LedgerEmailInputs, restaurantId \in ConcurrentRestaurantIdInputs :
                RegistrationFits(restaurantId, MaxLedgerShared)
                  /\ request_createCustomer(p, email, restaurantId)
          \/ \E r \in FanoutPostingInputs :
                EntryFits(MaxLedgerShared) /\ request_createTransaction(p, r)
          \/ createCustomer(p)
          \/ generateMemberCode(p)
          \/ createCustomer_create(p)
          \/ createCustomer_createTransaction(p)
          \/ createCustomer_emit(p)
          \/ createTransaction(p)
          \/ createTransaction_balance(p)
          \/ createTransaction_create(p)
          \/ createTransaction_emit(p)

SpecEffects == InitEffects /\ [][NextEffects]_vars

(***************************************************************************)
(* SpecOrder: the checks of createTransaction on requests with several     *)
(* defects at once, for one registered customer; every request that names  *)
(* an unknown customer also carries an unknown type or a wrong sign.       *)
(***************************************************************************)
OrderInputs ==
    { r \in { TransactionRequest(c, restaurantId, t, a, hasAmount, description) :
                c \in {0, 1, MaxCustomers + 1}, restaurantId \in {NullId, "R1"},
                t \in {"", "BONUS", "EARNED", "REDEEMED"}, a \in {-1, 1},
                hasAmount \in BOOLEAN, description \in {"", "points"} } :
        r.customerId = MaxCustomers + 1 =>
            \/ r.type \in {"", "BONUS"}
            \/ (r.type = "EARNED" /\ r.amount < 0)
            \/ (r.type = "REDEEMED" /\ r.amount > 0) }

NextOrder ==
    \E p \in Procs :
        \/ \E r \in OrderInputs : request_createTransaction(p, r)
        \/ createTransaction(p)

SpecOrder == InitValidate /\ [][NextOrder]_vars

(***************************************************************************)
(* SpecEntries: registrations in R1 and postings for customer 1, among     *)
(* them one of type REGISTRATION, interleaved at every await.              *)
(***************************************************************************)
EntryPostingInputs ==
    { TransactionRequest(1, "R1", "EARNED", 50, TRUE, "points"),
      TransactionRequest(1, "R1", "REGISTRATION", 0, TRUE, "points"),
      TransactionRequest(1, "R1", "REGISTRATION", -1, TRUE, "points") }

NextEntries ==
    \E p \in Procs :
        \/ \E email \in LedgerEmailInputs :
              RegistrationFits("R1", MaxLedger) /\ request_createCustomer(p, email, "R1")
        \/ \E r \in EntryPostingInputs :
              EntryFits(MaxLedger) /\ request_createTransaction(p, r)
        \/ createCustomer(p)
        \/ generateMemberCode(p)
        \/ createCustomer_create(p)
        \/ createCustomer_createTransaction(p)
        \/ createCustomer_emit(p)
        \/ createTransaction(p)
        \/ createTransaction_balance(p)
        \/ createTransaction_create(p)
        \/ createTransaction_emit(p)

SpecEntries == InitEffects /\ [][NextEntries]_vars

(***************************************************************************)
(* SpecPrune: customers 1 and 2 of R1 hold granted permissions with        *)
(* endpoints e1 and e3; notifications are sent to R1 while customer 1      *)
(* saves a permission again, with e1 or with a new endpoint e2, or revokes *)
(* it.                                                                     *)
(***************************************************************************)
PruneEndpoints == {"e1", "e2"}

InitPrune ==
    /\ env = <<>>
    /\ customers = << [email |-> <<"a", "@", "b", ".", "c">>, memberCode |-> String(CodeBase),
                       restaurantId |-> "R1"],
                      [email |-> <<"d", "@", "b", ".", "c">>, memberCode |-> String(CodeBase + 1),
                       restaurantId |-> "R1"] >>
    /\ ledger = <<>>
    /\ events = <<>>
    /\ permissions = {[id |-> 1, customerId |-> 1, restaurantId |-> "R1",
                       permissionGranted |-> TRUE, pushSubscription |-> "e1"],
                      [id |-> 2, customerId |-> 2, restaurantId |-> "R1",
                       permissionGranted |-> TRUE, pushSubscription |-> "e3"]}
    /\ permissionIds = 2
    /\ vapid = TRUE
    /\ pruned = {}
    /\ rooms = [s \in Subscribers |-> {}]
    /\ inbox = [s \in Subscribers |-> <<>>]
    /\ welcome = {}
    /\ InitSlots

\* slot p1 serves the sends and slot p2 the permission requests
NextPrune ==
    \/ request_sendNotification("p1", "R1", "title", "body", FALSE, <<>>)
    \/ sendNotification("p1")
    \/ sendNotificationToRestaurant_settle("p1")
    \/ sendNotificationToRestaurant_prune("p1")
    \/ \E granted \in BOOLEAN, pushSubscription \in {Undefined} \cup PruneEndpoints :
          /\ PermissionFits
          /\ request_createNotificationPermission("p2", 1, "R1", granted, granted,
                                                  pushSubscription)
    \/ createNotificationPermission("p2")
    \/ createNotificationPermission_upsert("p2")
    \/ request_deleteNotificationPermission("p2", 1, "R1")
    \/ deleteNotificationPermission("p2")

SpecPrune == InitPrune /\ [][NextPrune]_vars

(***************************************************************************)
(* Vocabulary of the properties                                            *)
(***************************************************************************)
\* the entries of a customer among rows, in insertion order
EntriesOf(rows, customerId) ==
    LET OfCustomer(e) == e.customerId = customerId IN SelectSeq(rows, OfCustomer)

\* the sum of the amounts of a sequence of entries
RECURSIVE TotalAmount(_)
TotalAmount(entries) ==
    IF entries = <<>> THEN 0 ELSE Head(entries).amount + TotalAmount(Tail(entries))

\* slot p answers in this step
Answers(p) == pc[p] # "idle" /\ pc'[p] = "idle"

StoreUnchanged == UNCHANGED <<customers, ledger, events>>

\* two addresses are equal when compared without regard to case
SameIgnoringCase(s, u) ==
    Len(s) = Len(u) /\ \A i \in 1..Len(s) : LowerChar(s[i]) = LowerChar(u[i])

\* the numeric value of a member code
CodeValue(code) == parseInt(code)

(***************************************************************************)
(* Properties                                                              *)
(***************************************************************************)

\* C1: whatever calls have run or are running, the balance that is computed
\* and reported for a customer is the sum of the amounts of all the entries
\* of that customer in the ledger, whatever restaurantId they carry.
C1_BalanceIsSumOfAmounts ==
    [][ /\ \A c \in 1..Len(customers') :
              calculateCustomerBalance(c)' = TotalAmount(EntriesOf(ledger', c))
        /\ \A p \in Procs :
              (pc[p] = "gb_balance" /\ Answers(p)) =>
                  /\ resp'[p].status = 200
                  /\ resp'[p].balance = TotalAmount(EntriesOf(ledger', req[p].customerId))
      ]_vars

\* a customer whose two entries carry different restaurants and whose latest
\* snapshot is stale, and the balance reported for it is the true sum
C1_Witness ==
    \E p \in Procs :
        /\ resp[p].op = "getCustomerBalance" /\ resp[p].status = 200
        /\ Len(EntriesOf(ledger, 1)) = 2
        /\ ledger[1].restaurantId # ledger[2].restaurantId
        /\ ledger[2].balanceAfter # ledger[1].amount + ledger[2].amount
        /\ resp[p].balance = ledger[1].amount + ledger[2].amount

\* C2: with one request at a time, the snapshots of a customer's entries chain
\* in insertion order from 0, and the last one is the current balance.
C2_RunningSnapshot ==
    \A c \in 1..Len(customers) :
        LET entries == EntriesOf(ledger, c) IN
        /\ \A i \in 1..Len(entries) :
              entries[i].balanceAfter =
                  (IF i = 1 THEN 0 ELSE entries[i - 1].balanceAfter) + entries[i].amount
        /\ Len(entries) > 0 => entries[Len(entries)].balanceAfter = calculateCustomerBalance(c)

\* registration with 100, then EARNED 50, then REDEEMED -30: the snapshots
\* are 100, 150, 120
C2_Witness ==
    /\ Len(ledger) = 3
    /\ \A i \in 1..3 : ledger[i].customerId = 1
    /\ <<ledger[1].type, ledger[2].type, ledger[3].type>> = <<"REGISTRATION", "EARNED", "REDEEMED">>
    /\ <<ledger[1].balanceAfter, ledger[2].balanceAfter, ledger[3].balanceAfter>> = <<100, 150, 120>>

\* C3: for every interleaving of postings for a customer, each entry's
\* balanceAfter is the sum of the amounts of the customer's earlier entries
\* plus its own amount.
C3_SnapshotUnderInterleaving ==
    \A i \in 1..Len(ledger) :
        ledger[i].balanceAfter =
            TotalAmount(EntriesOf(SubSeq(ledger, 1, i - 1), ledger[i].customerId))
            + ledger[i].amount

\* C4: the validation refuses exactly an unknown type and a wrong-signed
\* non-zero amount, and so accepts 0 for each of the six types.
C4_SignEnforcement ==
    [][ \A p \in Procs :
          (pc[p] = "ct_start" /\ pc'[p] # "ct_start") =>
              LET type == req[p].type
                  amount == req[p].amount
                  wrongSign ==
                      \/ type \in {"REGISTRATION", "EARNED", "REFUNDED"} /\ amount < 0
                      \/ type \in {"REDEEMED", "EXPIRED", "ADJUSTED"} /\ amount > 0
                  unknown ==
                      type \notin {"REGISTRATION", "EARNED", "REDEEMED", "EXPIRED",
                                   "ADJUSTED", "REFUNDED"}
              IN  /\ (unknown \/ wrongSign) <=> (Answers(p) /\ resp'[p].status = 400)
                  /\ ~(unknown \/ wrongSign) <=> pc'[p] = "ct_balance"
                  /\ (amount = 0 /\ ~unknown) => pc'[p] = "ct_balance"
      ]_vars

\* ADJUSTED with 0 has passed, and a positive REDEEMED has been refused
C4_Witness ==
    \E p, q \in Procs :
        /\ pc[p] = "ct_balance" /\ req[p].type = "ADJUSTED" /\ req[p].amount = 0
        /\ resp[q].status = 400
        /\ resp[q].message = "transactions must have a negative amount"

\* C5: a posting that is refused (400 or 404) has written nothing: neither its
\* arrival nor the step that refuses it changes a table or emits an event, and
\* every balance is what it was.
C5_RejectionWritesNothing ==
    [][ \A p \in Procs :
          /\ (pc[p] = "idle" /\ pc'[p] = "ct_start") => StoreUnchanged
          /\ (req[p].op = "createTransaction" /\ Answers(p) /\ resp'[p].status \in {400, 404}) =>
                /\ pc[p] = "ct_start"
                /\ StoreUnchanged
                /\ \A c \in 1..Len(customers) :
                      calculateCustomerBalance(c)' = calculateCustomerBalance(c)
      ]_vars

\* a positive REDEEMED was refused for a customer that holds points
C5_Witness ==
    \E p \in Procs :
        /\ resp[p].op = "createTransaction" /\ resp[p].status = 400
        /\ resp[p].message = "transactions must have a negative amount"
        /\ calculateCustomerBalance(1) > 0

\* C6: when createCustomer answers 201 (requests one at a time), a customer
\* with a restaurant has exactly one entry, REGISTRATION, of the welcome bonus
\* with balanceAfter the bonus, and its balance is the bonus; a customer
\* without a restaurant has no entry and balance 0.
C6_RegistrationEntry ==
    [][ \A p \in Procs, c \in 0..(MaxCustomers + 1) :
          (req[p].op = "createCustomer" /\ Answers(p) /\ resp'[p].status = 201
                /\ resp'[p].customer = c) =>
              LET entries == EntriesOf(ledger', c)
                  bonus == parseInt(IF env = <<>> THEN <<0>> ELSE env)
              IN  /\ c \in 1..Len(customers')
                  /\ IF req[p].restaurantId \notin {NullId, "  "}
                     THEN /\ customers'[c].restaurantId = req[p].restaurantId
                          /\ entries = << [customerId |-> c,
                                           restaurantId |-> req[p].restaurantId,
                                           type |-> "REGISTRATION", amount |-> bonus,
                                           balanceAfter |-> bonus] >>
                          /\ calculateCustomerBalance(c)' = bonus
                     ELSE /\ customers'[c].restaurantId = NullId
                          /\ entries = <<>>
                          /\ calculateCustomerBalance(c)' = 0
      ]_vars

\* a registration in R1 with a bonus of 100 has been answered 201
C6_Witness ==
    \E p \in Procs :
        /\ resp[p].op = "createCustomer" /\ resp[p].status = 201
        /\ resp[p].customer = Len(customers)
        /\ customers[resp[p].customer].restaurantId = "R1"
        /\ resp[p].transaction = Len(ledger)
        /\ ledger[Len(ledger)].amount = 100 /\ ledger[Len(ledger)].balanceAfter = 100

\* C7: with one registration at a time, a code handed out by the allocator is
\* held by no customer of its scope, it is a decimal string of 5 digits
\* between 10000 and 99999, and the codes of a scope are pairwise distinct.
C7_AllocatorUniqueness ==
    /\ \A p \in Procs :
          pc[p] = "cc_createCustomer" =>
              /\ \A c \in 1..Len(customers) :
                    customers[c].restaurantId = loc[p].rid =>
                        customers[c].memberCode # loc[p].memberCode
              /\ Len(loc[p].memberCode) = 5
              /\ \A i \in 1..5 : loc[p].memberCode[i] \in 0..9
              /\ CodeValue(loc[p].memberCode) \in 10000..99999
    /\ \A c, d \in 1..Len(customers) :
          (c # d /\ customers[c].restaurantId = customers[d].restaurantId) =>
              customers[c].memberCode # customers[d].memberCode

\* two customers of R1, registered one after the other, hold different codes
C7_Witness ==
    /\ Len(customers) = 2
    /\ customers[1].restaurantId = "R1" /\ customers[2].restaurantId = "R1"
    /\ customers[1].memberCode # customers[2].memberCode

\* C8: no two customers of the same restaurant hold the same member code, in
\* every state of every interleaving.
C8_ScopedCodesUnique ==
    \A c, d \in 1..Len(customers) :
        (c # d /\ customers[c].restaurantId # NullId
               /\ customers[c].restaurantId = customers[d].restaurantId) =>
            customers[c].memberCode # customers[d].memberCode

\* two registrations of R1 drew the same code at once: the second insert was
\* refused by the index
C8_Witness ==
    \E p \in Procs :
        /\ resp[p].op = "createCustomer" /\ resp[p].status = 500
        /\ resp[p].message = "Unique constraint failed on (restaurantId, memberCode)"

\* C9: the allocator draws at most 15 times: a taken code on one of the first
\* 14 draws leads to another draw, a taken code on the 15th ends the
\* registration with 500, and no step of that registration, from its arrival
\* to its failure, has inserted a customer or an entry.
C9_AllocationExhausted ==
    [][ \A p \in Procs :
          /\ loc[p].attempt < 15
          /\ (pc[p] = "cc_generate" /\ pc'[p] # "cc_createCustomer"
                /\ <<pc[p], loc[p]>> # <<pc'[p], loc'[p]>>) =>
                IF loc[p].attempt < 14
                THEN pc'[p] = "cc_generate" /\ loc'[p].attempt = loc[p].attempt + 1
                ELSE /\ Answers(p)
                     /\ resp'[p].status = 500
                     /\ resp'[p].message = "Failed to generate unique member code"
                     /\ loc[p].savedCustomer = 0
                     /\ StoreUnchanged
          /\ (Answers(p) /\ resp'[p].message = "Failed to generate unique member code") =>
                pc[p] = "cc_generate" /\ loc[p].attempt = 14
          /\ (pc[p] \in {"cc_start", "cc_generate"}
                /\ <<pc[p], loc[p]>> # <<pc'[p], loc'[p]>>) => StoreUnchanged
      ]_vars

\* a registration has failed for want of a free code
C9_Witness ==
    \E p \in Procs :
        /\ resp[p].op = "createCustomer" /\ resp[p].status = 500
        /\ resp[p].message = "Failed to generate unique member code"

\* C10: the member code of a customer without a restaurant differs from the
\* member code of every other customer.
C10_UnscopedCodeGloballyUnique ==
    \A c, d \in 1..Len(customers) :
        (c # d /\ customers[c].restaurantId = NullId) =>
            customers[c].memberCode # customers[d].memberCode

\* C11: no two customers have emails that are equal when compared without
\* regard to case, in every state of every interleaving of registrations.
C11_EmailsUniqueIgnoringCase ==
    \A c, d \in 1..Len(customers) :
        c # d => ~SameIgnoringCase(customers[c].email, customers[d].email)

\* a registration whose address differs from its folded form has passed the
\* lookup, and meanwhile another registration has stored the folded address
C11_Witness ==
    \E p \in Procs :
        /\ pc[p] = "cc_createCustomer"
        /\ req[p].email # loc[p].normalizedEmail
        /\ \E c \in 1..Len(customers) : customers[c].email = loc[p].normalizedEmail

Steps(p) == <<pc[p], loc[p]>> # <<pc'[p], loc'[p]>>

\* the rows a send of request r is to reach: of its restaurant, granted,
\* carrying a subscription and, when customerIds is given, of one of them
Reachable(rows, r) ==
    {row \in rows :
        /\ row.restaurantId = r.restaurantId
        /\ row.permissionGranted = TRUE
        /\ row.pushSubscription # NoSubscription
        /\ r.hasCustomerIds => \E i \in 1..Len(r.customerIds) : r.customerIds[i] = row.customerId}

\* C13: a send call makes no delivery attempt to a row whose earlier send was
\* answered gone and pruned (and whose subscription has not been stored again
\* since): the first call has cleared the subscription.
C13_PrunedNotSentAgain ==
    [][ \A p \in Procs :
          (pc[p] = "sn_start" /\ pc'[p] = "sn_sending") =>
              \A id \in DOMAIN loc'[p].results : id \notin pruned
      ]_vars

\* C14: when the provider answers 404/410 for a target, the update that
\* follows leaves the target's row in place with permissionGranted as it was
\* and with no push subscription; a step of the call that settles a target in
\* another way leaves the table as it is; and the pruned target is reported
\* among the failures.
C14_GoneClearsSubscription ==
    [][ \A p \in Procs :
          (pc[p] = "sn_sending" /\ Steps(p)) =>
              /\ \A id \in pruned' \ pruned :
                    \E old \in permissions, new \in permissions' :
                        /\ old.id = id /\ new.id = id
                        /\ new.permissionGranted = old.permissionGranted
                        /\ new.pushSubscription = NoSubscription
              /\ pruned' = pruned => permissions' = permissions
              /\ Answers(p) =>
                    \A id \in DOMAIN loc[p].results :
                        loc[p].results[id] = "gone" => <<id, "gone">> \in resp'[p].errors
      ]_vars

\* C15: the targets a send call attempts are exactly the rows of its
\* restaurant with permissionGranted, with a subscription and, when customerIds
\* is given, with a customerId among them; the call attempts nothing only when
\* there is no such row; and it attempts no other row later.
C15_TargetsAreGrantedSubscribers ==
    [][ \A p \in Procs :
          /\ (pc[p] = "sn_start" /\ pc'[p] = "sn_sending") =>
                /\ loc'[p].targets = Reachable(permissions, req[p])
                /\ DOMAIN loc'[p].results = {row.id : row \in Reachable(permissions, req[p])}
                /\ \A id \in DOMAIN loc'[p].results : loc'[p].results[id] = "sending"
          /\ (pc[p] = "sn_start" /\ Answers(p) /\ resp'[p].status = 200) =>
                Reachable(permissions, req[p]) = {}
          /\ (pc[p] = "sn_sending" /\ pc'[p] = "sn_sending") =>
                /\ loc'[p].targets = loc[p].targets
                /\ DOMAIN loc'[p].results = DOMAIN loc[p].results
      ]_vars

\* a send to customer 1 of R1 attempts its row alone, while the table also
\* holds a granted, subscribed row of customer 2 in R1 and a subscribed row of R2
C15_Witness ==
    \E p \in Procs :
        /\ pc[p] = "sn_sending"
        /\ req[p].hasCustomerIds
        /\ Cardinality(loc[p].targets) = 1
        /\ \A row \in loc[p].targets : row.customerId = 1 /\ row.restaurantId = "R1"
        /\ \E row \in permissions :
              /\ row.customerId = 2 /\ row.restaurantId = "R1"
              /\ row.permissionGranted /\ row.pushSubscription # NoSubscription
        /\ \E row \in permissions :
              row.restaurantId = "R2" /\ row.pushSubscription # NoSubscription

\* C16: whatever the outcomes of the targets, a target once settled is not
\* sent to again, a call that has started its sends ends with 200, and its
\* answer has sent + failed equal to the number of targets, sent equal to the
\* number of targets whose delivery succeeded and every other target among
\* the failures.
C16_EveryTargetCounted ==
    [][ \A p \in Procs :
          (pc[p] = "sn_sending" /\ Steps(p)) =>
              LET results == loc[p].results
                  targets == DOMAIN results
                  succeeded == {id \in targets : results[id] = "success"}
                  sending == {id \in targets : results[id] = "sending"}
                  reported == {id \in targets : \E e \in resp'[p].errors : e[1] = id}
              IN  /\ pc'[p] = "sn_sending" =>
                        \A id \in targets :
                            results[id] # "sending" => loc'[p].results[id] # "sending"
                  /\ pc'[p] # "sn_sending" =>
                        /\ Answers(p)
                        /\ resp'[p].status = 200
                        /\ resp'[p].sent + resp'[p].failed = Cardinality(targets)
                        /\ resp'[p].sent = Cardinality(targets \ reported)
                        /\ succeeded \subseteq targets \ reported
                        /\ targets \ reported \subseteq succeeded \cup sending
                        /\ Cardinality(sending) <= 1
      ]_vars

\* a call with two targets has answered: one delivery succeeded and the update
\* that followed a gone answer was refused
C16_Witness ==
    \E p \in Procs :
        /\ resp[p].op = "sendNotification" /\ resp[p].status = 200
        /\ resp[p].sent = 1 /\ resp[p].failed = 1
        /\ \E e \in resp[p].errors : e[2] = "rejected"

\* C17: a send call is refused as a whole (400 or 500) exactly when the VAPID
\* keys are missing, a required field is missing or customerIds is an empty
\* array; the refusal makes no attempt and changes no row; and a call without
\* customerIds that goes through attempts every granted, subscribed row of the
\* restaurant.
C17_WholeCallFailures ==
    [][ \A p \in Procs :
          /\ (pc[p] = "sn_start" /\ Steps(p)) =>
                LET r == req[p]
                    refused ==
                        \/ ~vapid
                        \/ r.restaurantId = NullId \/ r.title = "" \/ r.body = ""
                        \/ (r.hasCustomerIds /\ r.customerIds = <<>>)
                IN  /\ refused <=> (Answers(p) /\ resp'[p].status \in {400, 500})
                    /\ refused => (permissions' = permissions /\ pruned' = pruned
                                    /\ resp'[p].sent = 0 /\ resp'[p].failed = 0)
                    /\ (~refused /\ ~r.hasCustomerIds) =>
                          LET all == {row \in permissions :
                                        /\ row.restaurantId = r.restaurantId
                                        /\ row.permissionGranted
                                        /\ row.pushSubscription # NoSubscription}
                          IN IF all = {} THEN Answers(p) /\ resp'[p].status = 200
                             ELSE pc'[p] = "sn_sending" /\ loc'[p].targets = all
          /\ (pc[p] = "sn_sending" /\ Answers(p)) => resp'[p].status = 200
      ]_vars

\* a send with an empty customerIds has been refused while R1 holds a granted,
\* subscribed row
C17_Witness ==
    \E p \in Procs :
        /\ resp[p].op = "sendNotification" /\ resp[p].status = 400
        /\ resp[p].message = "customerIds array cannot be empty"
        /\ \E row \in permissions :
              /\ row.restaurantId = "R1" /\ row.permissionGranted
              /\ row.pushSubscription # NoSubscription

ShapeOf(q) ==
    IF \E i \in 1..Len(q) : q[i] = "@" THEN "email"
    ELSE IF \/ (Len(q) <= 6 /\ \A i \in 1..Len(q) : IsDigit(q[i]))
            \/ (Len(q) > 0 /\ q[1] = "#")
    THEN "memberCode"
    ELSE "phone"

\* C19: the query searchCustomer makes for q is the one of q's shape: the
\* case-folded q as email; or the digits of q as member code; or the digits of
\* q as normalized phone with q itself as raw phone.
C19_SearchDispatch ==
    \A p \in Procs :
        pc[p] = "ss_find" =>
            LET q == trim(req[p].q) IN
            /\ loc[p].kind = ShapeOf(q)
            /\ loc[p].kind = "email" => loc[p].key = [i \in 1..Len(q) |-> LowerChar(q[i])]
            /\ loc[p].kind = "memberCode" => loc[p].key = SelectSeq(q, IsDigit)
            /\ loc[p].kind = "phone" =>
                  loc[p].digitsOnly = SelectSeq(q, IsDigit) /\ loc[p].key = q

\* C20: a search answers 200 or 404; the customer of a 200 belongs to the
\* restaurant of the search (the one given, or else the one of the user) and
\* matches the query, and 404 is answered exactly when no customer of that
\* restaurant matches.
C20_SearchStaysInScope ==
    [][ \A p \in Procs :
          (pc[p] = "ss_find" /\ Answers(p)) =>
              LET given == IF req[p].restaurantId = "  " THEN NullId ELSE req[p].restaurantId
                  scope == IF given # NullId THEN given
                           ELSE CHOOSE r \in Restaurants : restaurantUserId(r) = req[p].userId
                  matching ==
                      {c \in 1..Len(customers) :
                          /\ customers[c].restaurantId = scope
                          /\ \/ loc[p].kind = "email" /\ customers[c].email = loc[p].key
                             \/ /\ loc[p].kind = "memberCode"
                                /\ digitChars(customers[c].memberCode) = loc[p].key
                             \/ /\ loc[p].kind = "phone"
                                /\ \/ customers[c].phoneNormalized = loc[p].digitsOnly
                                   \/ customers[c].phone = loc[p].key}
              IN  /\ resp'[p].status \in {200, 404}
                  /\ resp'[p].status = 200 => resp'[p].customer \in matching
                  /\ resp'[p].status = 404 <=> matching = {}
      ]_vars

\* a search has returned customer 2, of R2, whose member code and phone are
\* those of customer 1 of R1 as well
C20_Witness ==
    \E p \in Procs :
        /\ resp[p].op = "searchCustomer" /\ resp[p].status = 200
        /\ resp[p].customer = 2
        /\ customers[2].restaurantId = "R2"
        /\ customers[1].memberCode = customers[2].memberCode
        /\ customers[1].phone = customers[2].phone

\* the statements of the history call of slot p that complete in this step
Completed(p) ==
    loc[p].pending \ (IF pc'[p] = "gh_reads" THEN loc'[p].pending ELSE {})

\* C21: in a history call, whatever the page and the limit, the balance read is
\* the sum of the amounts of all the customer's entries and the total read is
\* the number of all of them (as the ledger stands when each is read); the
\* entries read are the customer's, most recent first, the page's slice of
\* them; and the 200 answer carries what was read.
C21_HistoryTotals ==
    [][ \A p \in Procs :
          (pc[p] = "gh_reads" /\ Steps(p) /\ ~(Answers(p) /\ resp'[p].status = 500)) =>
              LET c == req[p].customerId
                  own == EntriesOf(ledger, c)
                  after == IF Answers(p) THEN resp'[p] ELSE loc'[p]
                  page == after.transactions
                  pageNo == IF req[p].page = <<>> THEN 1 ELSE req[p].page[1]
                  size == IF req[p].limit = <<>> THEN 50 ELSE req[p].limit[1]
                  before == (pageNo - 1) * size
                  left == IF Len(own) > before THEN Len(own) - before ELSE 0
              IN  /\ "aggregate" \in Completed(p) => after.balance = TotalAmount(own)
                  /\ "count" \in Completed(p) => after.total = Len(own)
                  /\ "findMany" \in Completed(p) =>
                        /\ Len(page) = IF size < left THEN size ELSE left
                        /\ \A i \in 1..Len(page) :
                              /\ page[i] \in 1..Len(ledger)
                              /\ ledger[page[i]].customerId = c
                              /\ Cardinality({k \in 1..Len(ledger) :
                                    ledger[k].customerId = c /\ k > page[i]}) = before + i - 1
                        /\ \A i, j \in 1..Len(page) : i < j => page[i] > page[j]
                  /\ "aggregate" \notin Completed(p) => after.balance = loc[p].balance
                  /\ "count" \notin Completed(p) => after.total = loc[p].total
                  /\ "findMany" \notin Completed(p) => after.transactions = loc[p].transactions
                  /\ Answers(p) => resp'[p].status = 200 /\ Cardinality(Completed(p)) = 1
      ]_vars

\* page 2 of size 1 of a history of three entries has been answered: one
\* entry, the second most recent, with the total 3 and the balance of all three
C21_Witness ==
    \E p \in Procs :
        /\ resp[p].op = "getCustomerTransactions" /\ resp[p].status = 200
        /\ resp[p].page = 2 /\ resp[p].limit = 1
        /\ Len(resp[p].transactions) = 1
        /\ resp[p].total = 3
        /\ resp[p].balance = 120
        /\ ledger[resp[p].transactions[1]].amount = 50

\* C22: no step of any operation changes or removes an entry of the ledger:
\* in every step the ledger of before is a prefix of the ledger of after, which
\* is longer by one entry at most.
C22_LedgerAppendOnly ==
    [][ /\ Len(ledger') \in {Len(ledger), Len(ledger) + 1}
        /\ \A i \in 1..Len(ledger) : ledger'[i] = ledger[i]
      ]_vars

\* customer 1 holds its registration entry and two postings, and since then a
\* send has met its permission row and answered
C22_Witness ==
    \E p \in Procs :
        /\ Len(EntriesOf(ledger, 1)) = 3
        /\ ledger[1].type = "REGISTRATION"
        /\ resp[p].op = "sendNotification" /\ resp[p].status = 200
        /\ resp[p].sent + resp[p].failed = 1

\* C23: an event is emitted only for an entry that is already in the ledger,
\* by the call that inserted it and after its insert; createTransaction reads
\* the balance before it inserts; and a call whose insert fails answers 500,
\* emits nothing then or later, and leaves the ledger as it was.
C23_EmitAfterCommit ==
    [][ /\ \A i \in 1..Len(events') : events'[i].transaction \in 1..Len(ledger')
        /\ events' # events =>
              \E p \in Procs :
                  LET entry == IF pc[p] = "ct_emit" THEN loc[p].savedTransaction
                               ELSE loc[p].registrationTransaction
                  IN  /\ pc[p] \in {"ct_emit", "cc_emit"}
                      /\ entry \in 1..Len(ledger)
                      /\ ledger' = ledger
                      /\ events' = Append(events, [restaurantId |-> ledger[entry].restaurantId,
                                                   transaction |-> entry])
                      /\ \A i \in 1..Len(events) : events[i].transaction # entry
        /\ \A p \in Procs :
              /\ (pc'[p] = "ct_create" /\ Steps(p)) =>
                    /\ pc[p] = "ct_balance"
                    /\ ledger' = ledger
                    /\ loc'[p].balanceAfter =
                          TotalAmount(EntriesOf(ledger, req[p].customerId)) + req[p].amount
              /\ (Len(ledger') > Len(ledger) /\ pc[p] = "ct_create" /\ Steps(p)) =>
                    ledger'[Len(ledger')].balanceAfter = loc[p].balanceAfter
              /\ (pc[p] \in {"ct_create", "cc_createTransaction"} /\ Steps(p)
                    /\ ledger' = ledger) =>
                    /\ Answers(p)
                    /\ resp'[p].status = 500
                    /\ events' = events
              /\ (pc'[p] \in {"ct_emit", "cc_emit"} /\ Steps(p)) =>
                    /\ pc[p] \in {"ct_create", "cc_createTransaction"}
                    /\ ledger' # ledger
              /\ (Answers(p) /\ resp'[p].status = 201 /\ resp'[p].transaction # 0) =>
                    resp'[p].transaction \in 1..Len(ledger)
      ]_vars

\* the insert of a posting has failed: the ledger holds the one entry of
\* before, with its event, and nothing was emitted for the failed posting
C23_Witness ==
    \E p \in Procs :
        /\ resp[p].op = "createTransaction" /\ resp[p].status = 500
        /\ resp[p].message = "Transaction insert failed"
        /\ Len(ledger) = 1
        /\ Len(events) = 1 /\ events[1].transaction = 1
        /\ \A q \in Procs : pc[q] = "idle"

\* C24: once the ledger write of a createTransaction or createCustomer has
\* committed, the call answers 201 whatever becomes of the read-back and the
\* publish that follow, and these leave the ledger and the customers as they
\* are; and a welcome-email task, sent or failed, changes no table, no event
\* and no response.
C24_SideEffectFailureIsolated ==
    [][ /\ \A p \in Procs :
              (pc[p] \in {"ct_emit", "cc_emit"} /\ Steps(p)) =>
                  /\ Answers(p)
                  /\ resp'[p].status = 201
                  /\ ledger' = ledger
                  /\ customers' = customers
        /\ (\E c \in 1..Len(customers) :
                <<c, "scheduled">> \in welcome /\ <<c, "scheduled">> \notin welcome') =>
              UNCHANGED <<customers, ledger, events, resp, pc>>
      ]_vars

\* C25: when the insert of a registration meets, in its restaurant, a customer
\* that holds the code it drew (and no customer holds its email), the
\* registration does not fail: it inserts nothing and draws again, as long as
\* it has made fewer than 15 attempts.
C25_InsertConflictRetried ==
    [][ \A p \in Procs :
          LET codeTaken ==
                  \E c \in 1..Len(customers) :
                      /\ loc[p].rid # NullId
                      /\ customers[c].restaurantId = loc[p].rid
                      /\ customers[c].memberCode = loc[p].memberCode
              emailTaken ==
                  \E c \in 1..Len(customers) : customers[c].email = loc[p].normalizedEmail
          IN (pc[p] = "cc_createCustomer" /\ Steps(p) /\ codeTaken /\ ~emailTaken
                /\ loc[p].attempt + 1 < 15) =>
                /\ customers' = customers
                /\ pc'[p] = "cc_generate"
                /\ loc'[p].attempt = loc[p].attempt + 1
      ]_vars

\* C26: createTransaction answers by the first check that fails, in this
\* order: a missing field (400), an unknown customer (404), an unknown type
\* (400), a wrong sign (400); a request that passes them all goes on to the
\* balance read.
C26_ValidationOrder ==
    [][ \A p \in Procs :
          (pc[p] = "ct_start" /\ Steps(p)) =>
              LET r == req[p]
                  missing == \/ r.customerId = 0 \/ r.restaurantId = "" \/ r.type = ""
                             \/ ~r.hasAmount \/ r.description = ""
                  unknownCustomer == r.customerId \notin 1..Len(customers)
                  unknownType == r.type \notin {"REGISTRATION", "EARNED", "REDEEMED",
                                                "EXPIRED", "ADJUSTED", "REFUNDED"}
                  wrongSign ==
                      \/ r.type \in {"REGISTRATION", "EARNED", "REFUNDED"} /\ r.amount < 0
                      \/ r.type \in {"REDEEMED", "EXPIRED", "ADJUSTED"} /\ r.amount > 0
                  answered(status, message) ==
                      /\ Answers(p)
                      /\ resp'[p].status = status
                      /\ resp'[p].message = message
              IN  IF missing
                  THEN answered(400, "Please provide customerId, restaurantId, type, amount, and description")
                  ELSE IF unknownCustomer THEN answered(404, "Customer not found")
                  ELSE IF unknownType THEN answered(400, "Invalid transaction type")
                  ELSE IF wrongSign
                  THEN \/ answered(400, "transactions must have a positive amount")
                       \/ answered(400, "transactions must have a negative amount")
                  ELSE pc'[p] = "ct_balance"
      ]_vars

\* a posting has been answered 404: in these runs every posting for an unknown
\* customer also carries an unknown type or a wrong sign
C26_Witness ==
    \E p \in Procs :
        /\ resp[p].op = "createTransaction" /\ resp[p].status = 404
        /\ resp[p].message = "Customer not found"
        /\ \A r \in OrderInputs :
              (r.customerId # 0 /\ r.customerId \notin 1..Len(customers)) =>
                  \/ r.type \notin {"EARNED", "REDEEMED"}
                  \/ (r.type = "EARNED" /\ r.amount < 0)
                  \/ (r.type = "REDEEMED" /\ r.amount > 0)

\* C27 (as stated): the balance of every customer is at least 0 in every
\* state.
C27_BalanceNeverNegative ==
    \A c \in 1..Len(customers) : TotalAmount(EntriesOf(ledger, c)) >= 0

\* C27 (amended): a REDEEMED, EXPIRED or ADJUSTED posting with an amount of 0
\* or less for a known customer passes the validation whatever the customer's
\* balance, and the insert that follows commits it with the amount requested
\* and with the balance read plus that amount as balanceAfter, below zero or
\* not: the customer's balance changes by the amount.
C27_NegativePostingUnchecked ==
    [][ \A p \in Procs :
          LET r == req[p]
              c == r.customerId
              complete == /\ c # 0 /\ r.restaurantId # "" /\ r.type # ""
                          /\ r.hasAmount /\ r.description # ""
          IN  /\ (pc[p] = "ct_start" /\ Steps(p) /\ complete /\ c \in 1..Len(customers)
                    /\ r.type \in {"REDEEMED", "EXPIRED", "ADJUSTED"} /\ r.amount <= 0) =>
                    pc'[p] = "ct_balance"
              /\ (pc[p] = "ct_create" /\ Steps(p) /\ ledger' # ledger) =>
                    /\ ledger' = Append(ledger, [customerId |-> c,
                                                 restaurantId |-> r.restaurantId,
                                                 type |-> r.type, amount |-> r.amount,
                                                 balanceAfter |-> loc[p].balanceAfter])
                    /\ TotalAmount(EntriesOf(ledger', c))
                          = TotalAmount(EntriesOf(ledger, c)) + r.amount
      ]_vars

\* a REDEEMED posting of -30 was committed for a customer that held nothing:
\* its balance is -30
C27_Witness ==
    \E c \in 1..Len(customers), i \in 1..Len(ledger) :
        /\ ledger[i].customerId = c /\ ledger[i].type = "REDEEMED"
        /\ ledger[i].amount = -30
        /\ ledger[i].balanceAfter = -30
        /\ TotalAmount(EntriesOf(ledger, c)) = -30

\* C28: among the entries of a customer, in insertion order, only the first
\* can be of type REGISTRATION: there is at most one such entry and no entry
\* of the customer precedes it.
C28_SingleRegistrationFirst ==
    \A c \in 1..Len(customers) :
        LET entries == EntriesOf(ledger, c) IN
        \A i \in 1..Len(entries) : entries[i].type = "REGISTRATION" => i = 1

\* C29: a registration that answers anything but 201 has inserted no
\* customer; and a customer of a restaurant that no call in progress has
\* inserted holds a REGISTRATION entry.
C29_RegistrationAllOrNothing ==
    [][ /\ \A p \in Procs :
              (req[p].op = "createCustomer" /\ Answers(p) /\ resp'[p].status # 201) =>
                  /\ loc[p].savedCustomer = 0
                  /\ customers' = customers
        /\ \A c \in 1..Len(customers') :
              (customers'[c].restaurantId # ""
                 /\ \A p \in Procs : loc'[p].savedCustomer # c) =>
                  \E i \in 1..Len(ledger') :
                      ledger'[i].customerId = c /\ ledger'[i].type = "REGISTRATION"
      ]_vars


\* a step of the send that slot p makes
SendStep(p) == pc[p] = "sn_sending" /\ loc'[p] # loc[p]

\* the subscription the send of slot p read for the row
ReadBySend(p, id) == {t.pushSubscription : t \in {u \in loc[p].targets : u.id = id}}

====
